---- MODULE Spec2Model ----
(***************************************************************************)
(* A model of the lead-generation backend: company deduplication, the two  *)
(* enrichment passes and the scoring engine.                               *)
(*                                                                         *)
(* Conventions                                                             *)
(*  - Text the code inspects character by character (company names,       *)
(*    keywords, extracted text, industry codes) is a sequence of           *)
(*    one-character strings; text the code only compares for equality or   *)
(*    uses as a dictionary key (statuses, range buckets) is a TLA+ string. *)
(*  - Python's None is the value None for char-sequence text, and the      *)
(*    string "None" for plain strings.                                     *)
(*  - Floats are fixed point: scores in tenths, weights in hundredths,     *)
(*    extraction quality in ten-thousandths.                               *)
(***************************************************************************)
EXTENDS Integers, Sequences, FiniteSets, TLC

VARIABLES
    companies,      \* committed rows of the companies table (sequence of records)
    nextCompanyId,  \* the companies.id sequence
    sessions,       \* per database session: position and uncommitted rows
    returned,       \* history: <<raw name, company id>> of every finished find_or_create_company call
    firstRaw,       \* history: <<normalized name, raw name>> of the first call for each normalized name
    vacancies,      \* the vacancies table (a set of rows: the store returns them in any order)
    leads,          \* the leads table (sequence of rows)
    nextLeadId,     \* the leads.id sequence
    configs,        \* the scoring_configs table (sequence of rows)
    clock,          \* the clock, in days
    runs,           \* the enrichment_runs table (sequence of rows)
    prompts,        \* the extraction_prompts table (sequence of rows)
    mergeTx,        \* the database session of the merge job: position and uncommitted rows
    request,        \* the HTTP request in flight: client, attempts made, delays slept
    wire,           \* per item of the last pass: the answers its outbound calls got
    orch,           \* run_full_enrichment in progress: position and result so far
    extraction,     \* run_llm_extraction in progress: the semaphore and each _extract_one task
    ret             \* what the last finished operation returned

dedupVars == <<companies, nextCompanyId, sessions, returned, firstRaw>>
scoreVars == <<vacancies, leads, nextLeadId, configs, clock>>
passVars == <<runs, prompts>>
jobVars == <<mergeTx, request, wire, orch, extraction>>

\* ------------------------------------------------------------------ text

None == <<"None">>

\* NULL in a range column, an integer column, a date column, the registry number
NoRange == "None"
NoInt == -1
NoDate == -1
NoKvk == "None"

\* NULL in companies.sbi_codes
NoCodes == << [ form |-> "none", code |-> <<>> ] >>

Min(S) == CHOOSE x \in S : \A y \in S : x <= y
Max(S) == CHOOSE x \in S : \A y \in S : x >= y

UpperAlpha == <<"A","B","C","D","E","F","G","H","I","J","K","L","M",
                "N","O","P","Q","R","S","T","U","V","W","X","Y","Z">>
LowerAlpha == <<"a","b","c","d","e","f","g","h","i","j","k","l","m",
                "n","o","p","q","r","s","t","u","v","w","x","y","z">>
Digits == {"0","1","2","3","4","5","6","7","8","9"}

\* str.lower() on one character
LowerChar(c) ==
    IF \E i \in 1..26 : UpperAlpha[i] = c
    THEN LowerAlpha[CHOOSE i \in 1..26 : UpperAlpha[i] = c]
    ELSE c

\* str.lower()
Lower(s) == [i \in 1..Len(s) |-> LowerChar(s[i])]

\* the regex class \w
IsWordChar(c) ==
    \/ \E i \in 1..26 : c = UpperAlpha[i] \/ c = LowerAlpha[i]
    \/ c \in Digits
    \/ c = "_"

\* the regex class \s (the model's texts hold no other whitespace than the blank)
IsSpace(c) == c = " "

\* kw occurs in s at position i
MatchAt(s, kw, i) ==
    /\ i >= 1
    /\ i + Len(kw) - 1 <= Len(s)
    /\ \A j \in 1..Len(kw) : s[i + j - 1] = kw[j]

\* Python's `kw in s` on strings
Contains(s, kw) == \E i \in 1..(Len(s) - Len(kw) + 1) : MatchAt(s, kw, i)

\* str.startswith
StartsWith(s, p) == MatchAt(s, p, 1)

\* str.strip()
Strip(s) ==
    LET keep == {i \in 1..Len(s) : ~IsSpace(s[i])}
    IN  IF keep = {} THEN <<>> ELSE SubSeq(s, Min(keep), Max(keep))

\* ------------------------------------------------------------------ dedup.py

\* _LEGAL_SUFFIXES: the strings the alternation matches (IGNORECASE; the
\* input is already lowercased when the pattern is applied)
OptDots(a, b) ==
    { <<a>> \o d1 \o <<b>> \o d2 : d1 \in {<<>>, <<".">>}, d2 \in {<<>>, <<".">>} }

LegalSuffixForms ==
    OptDots("b", "v") \cup OptDots("n", "v") \cup OptDots("s", "a")
    \cup { <<"g","m","b","h">>, <<"l","l","c">> }
    \cup { <<"l","t","d">>, <<"l","t","d",".">>, <<"i","n","c">>, <<"i","n","c",".">> }
    \cup { <<"s">> \o d1 \o <<"r">> \o d2 \o <<"l">> \o d3 :
             d1 \in {<<>>, <<".">>}, d2 \in {<<>>, <<".">>}, d3 \in {<<>>, <<".">>} }

\* the regex assertion \b before position i
WordBoundaryAt(s, i) ==
    LET before == IF i > 1 THEN IsWordChar(s[i - 1]) ELSE FALSE
        after  == IF i <= Len(s) THEN IsWordChar(s[i]) ELSE FALSE
    IN  before # after

\* the pattern \b(<suffix>)\s*$ matches s from position i to the end
SuffixMatchesFrom(s, i) ==
    /\ WordBoundaryAt(s, i)
    /\ \E f \in LegalSuffixForms :
          /\ MatchAt(s, f, i)
          /\ \A j \in (i + Len(f))..Len(s) : IsSpace(s[j])

\* _LEGAL_SUFFIXES.sub("", name): the leftmost match runs to the end of the
\* string, so at most one match is replaced
StripLegalSuffix(s) ==
    LET starts == {i \in 1..Len(s) : SuffixMatchesFrom(s, i)}
    IN  IF starts = {} THEN s ELSE SubSeq(s, 1, Min(starts) - 1)

NoiseChars == {"&", "-", ".", ",", "/", "\\", "|", "(", ")", "\"", "'"}

\* _NOISE_CHARS.sub(" ", name)
ReplaceNoise(s) == [i \in 1..Len(s) |-> IF s[i] \in NoiseChars THEN " " ELSE s[i]]

\* re.sub(r"\s+", " ", name)
RECURSIVE CollapseSpaces(_)
CollapseSpaces(s) ==
    IF Len(s) < 2 THEN s
    ELSE IF IsSpace(s[1]) /\ IsSpace(s[2]) THEN CollapseSpaces(Tail(s))
    ELSE <<s[1]>> \o CollapseSpaces(Tail(s))

normalize_company_name(name) ==
    LET stripped == Strip(name)
    IN  IF stripped = <<>> THEN <<>>
        ELSE Strip(CollapseSpaces(ReplaceNoise(StripLegalSuffix(Lower(stripped)))))

\* The raw company names the harvest feeds in (tests/test_dedup.py and variants)
Name_AcmeBV_dots  == <<"A","c","m","e"," ","B",".","V",".">>
Name_AcmeBV       == <<"A","c","m","e"," ","B","V">>
Name_acme_padded  == <<" ","a","c","m","e"," ","b",".","v","."," ">>
Name_GlobexNV     == <<"G","l","o","b","e","x"," ","N",".","V",".">>
Name_FooAndBar    == <<"F","o","o"," ","&"," ","B","a","r">>
Name_foo_bar      == <<"f","o","o"," ","b","a","r">>

RawNames ==
    { Name_AcmeBV_dots, Name_AcmeBV, Name_acme_padded,
      Name_GlobexNV, Name_FooAndBar, Name_foo_bar }

\* normalize_company_name on the names of the model, evaluated once
NormalizedName == [ raw \in RawNames |-> normalize_company_name(raw) ]

Sessions == {1, 2}

\* Company(name=raw_company_name, normalized_name=normalized); the other
\* columns take their defaults
NewCompany(id, raw, normalized) ==
    [ id |-> id, name |-> raw, normalized_name |-> normalized,
      kvk_number |-> NoKvk, sbi_codes |-> NoCodes,
      employee_range |-> NoRange, revenue_range |-> NoRange, entity_count |-> NoInt,
      enrichment_status |-> "pending", extraction_quality |-> NoInt ]

\* the rows a statement of session s sees: committed rows and the rows the
\* session itself has flushed (READ COMMITTED)
VisibleCompanies(s) == companies \o sessions[s].pending

\* the lookup compares the raw display name instead of the normalized name
MatchesRawName(row, raw, normalized) == row.name = raw

\* where(Company.normalized_name == normalized)
MatchesNormalized(row, raw, normalized) == row.normalized_name = normalized

\* select(Company).where(...) as seen by session s
SelectCompany(s, raw, normalized) ==
    LET rows == VisibleCompanies(s)
    IN  { i \in 1..Len(rows) : MatchesNormalized(rows[i], raw, normalized) }

IdleSession == [ pc |-> "idle", raw |-> None, pending |-> <<>> ]

RecordCall(raw, id) ==
    /\ returned' = returned \cup { <<raw, id>> }
    /\ firstRaw' =
          IF \E p \in firstRaw : p[1] = NormalizedName[raw]
          THEN firstRaw
          ELSE firstRaw \cup { <<NormalizedName[raw], raw>> }

\* find_or_create_company up to the result of the select: scalar_one_or_none
\* returns the row, returns None (the insert follows), or raises
\* MultipleResultsFound
SelectStep(s, raw) ==
    LET normalized == NormalizedName[raw]
        hits == SelectCompany(s, raw, normalized)
        rows == VisibleCompanies(s)
    IN  /\ sessions[s].pc = "idle"
        /\ IF hits = {}
           THEN /\ sessions' = [sessions EXCEPT ![s].pc = "insert", ![s].raw = raw]
                /\ UNCHANGED <<ret, returned, firstRaw>>
           ELSE IF Cardinality(hits) = 1
           THEN /\ ret' = [ op |-> "find_or_create_company", ok |-> TRUE,
                            id |-> rows[CHOOSE i \in hits : TRUE].id ]
                /\ RecordCall(raw, rows[CHOOSE i \in hits : TRUE].id)
                /\ UNCHANGED sessions
           ELSE /\ ret' = [ op |-> "find_or_create_company", ok |-> FALSE, id |-> 0 ]
                /\ UNCHANGED <<sessions, returned, firstRaw>>
        /\ UNCHANGED <<companies, nextCompanyId>>

\* db.add(company); await db.flush(); return company
InsertStep(s) ==
    LET raw == sessions[s].raw
        row == NewCompany(nextCompanyId, raw, NormalizedName[raw])
    IN  /\ sessions[s].pc = "insert"
        /\ sessions' = [sessions EXCEPT ![s].pc = "idle", ![s].raw = None,
                                       ![s].pending = Append(@, row)]
        /\ nextCompanyId' = nextCompanyId + 1
        /\ ret' = [ op |-> "find_or_create_company", ok |-> TRUE, id |-> row.id ]
        /\ RecordCall(raw, row.id)
        /\ UNCHANGED companies

\* the caller's db.commit() (HarvestService.run_harvest): the session's
\* flushed rows become visible to every session.  companies.normalized_name
\* carries an index but no unique constraint, so no row is refused.
CommitSession(s) ==
    /\ sessions[s].pc = "idle"
    /\ sessions[s].pending # <<>>
    /\ companies' = companies \o sessions[s].pending
    /\ sessions' = [sessions EXCEPT ![s].pending = <<>>]
    /\ ret' = [ op |-> "commit", ok |-> TRUE, id |-> 0 ]
    /\ UNCHANGED <<nextCompanyId, returned, firstRaw>>

\* find_or_create_company run from call to return with nothing in between
\* (one session, one caller)
find_or_create_company(s, raw) ==
    LET normalized == NormalizedName[raw]
        hits == SelectCompany(s, raw, normalized)
        rows == VisibleCompanies(s)
        row  == NewCompany(nextCompanyId, raw, normalized)
    IN  /\ sessions[s].pc = "idle"
        /\ IF hits = {}
           THEN /\ sessions' = [sessions EXCEPT ![s].pending = Append(@, row)]
                /\ nextCompanyId' = nextCompanyId + 1
                /\ ret' = [ op |-> "find_or_create_company", ok |-> TRUE, id |-> row.id ]
                /\ RecordCall(raw, row.id)
           ELSE IF Cardinality(hits) = 1
           THEN /\ ret' = [ op |-> "find_or_create_company", ok |-> TRUE,
                            id |-> rows[CHOOSE i \in hits : TRUE].id ]
                /\ RecordCall(raw, rows[CHOOSE i \in hits : TRUE].id)
                /\ UNCHANGED <<sessions, nextCompanyId>>
           ELSE /\ ret' = [ op |-> "find_or_create_company", ok |-> FALSE, id |-> 0 ]
                /\ UNCHANGED <<sessions, nextCompanyId, returned, firstRaw>>
        /\ UNCHANGED companies

\* no harvest run in progress, nothing remembered
InitDedupIdle ==
    /\ sessions = [s \in Sessions |-> IdleSession]
    /\ returned = {}
    /\ firstRaw = {}

InitDedup ==
    /\ companies = <<>>
    /\ nextCompanyId = 1
    /\ InitDedupIdle

NoOp == [ op |-> "none", ok |-> TRUE, id |-> 0 ]

\* no merge job running, no request in flight, no lookup answered
IdleTx == [ pc |-> "idle" ]
IdleRequest == [ pc |-> "idle" ]
NoWire == << >>
IdleOrch == [ pc |-> "idle" ]
IdleExtraction == [ pc |-> "idle" ]

InitJobsIdle ==
    /\ mergeTx = IdleTx
    /\ request = IdleRequest
    /\ wire = NoWire
    /\ orch = IdleOrch
    /\ extraction = IdleExtraction

\* nothing scored yet, no configuration stored
InitScoreIdle ==
    /\ vacancies = {}
    /\ leads = <<>>
    /\ nextLeadId = 1
    /\ configs = <<>>
    /\ clock = 0
    /\ runs = <<>>
    /\ prompts = <<>>

vars == <<companies, nextCompanyId, sessions, returned, firstRaw,
          vacancies, leads, nextLeadId, configs, clock, runs, prompts,
          mergeTx, extraction, request, wire, orch, ret>>

\* ---- sequential deduplication: one harvest run after the other ----

FindOrCreate ==
    /\ \E raw \in RawNames : find_or_create_company(1, raw)
    /\ UNCHANGED <<scoreVars, passVars, jobVars>>

CommitHarvest == CommitSession(1) /\ UNCHANGED <<scoreVars, passVars, jobVars>>

InitSeq == InitDedup /\ InitScoreIdle /\ InitJobsIdle /\ ret = NoOp

NextSeq == FindOrCreate \/ CommitHarvest

SpecDedup == InitSeq /\ [][NextSeq]_vars

\* ---- concurrent deduplication: two harvest runs, each in its own session ----

ConcurrentNames == { Name_AcmeBV_dots, Name_AcmeBV, Name_GlobexNV }

Select ==
    /\ \E s \in Sessions, raw \in ConcurrentNames : SelectStep(s, raw)
    /\ UNCHANGED <<scoreVars, passVars, jobVars>>

Insert == (\E s \in Sessions : InsertStep(s)) /\ UNCHANGED <<scoreVars, passVars, jobVars>>

Commit == (\E s \in Sessions : CommitSession(s)) /\ UNCHANGED <<scoreVars, passVars, jobVars>>

NextConc == Select \/ Insert \/ Commit

SpecConcurrentDedup == InitSeq /\ [][NextConc]_vars

\* C9: after sequential find_or_create_company calls there is at most one
\* Company row per normalized name, calls whose raw names normalize
\* identically returned the same company id, and each company's display name
\* is the raw name of the first call for its normalized name.
C9_Deduplicating ==
    LET rows == VisibleCompanies(1)
    IN  /\ \A i, j \in 1..Len(rows) :
              rows[i].normalized_name = rows[j].normalized_name => i = j
        /\ \A p, q \in returned :
              NormalizedName[p[1]] = NormalizedName[q[1]] => p[2] = q[2]
        /\ \A i \in 1..Len(rows) :
              <<rows[i].normalized_name, rows[i].name>> \in firstRaw

\* C9 witness: a later variant of a stored name was looked up and got the
\* first company back, whose display name differs from the variant
C9_Witness ==
    \E p, q \in returned :
        /\ p[1] # q[1]
        /\ p[2] = q[2]
        /\ \E i \in 1..Len(companies) :
              companies[i].id = p[2] /\ companies[i].name = p[1]

\* C10 witness of the race: both sessions have passed the lookup for the
\* same normalized name before either has inserted
C10_BothPastLookup ==
    /\ sessions[1].pc = "insert"
    /\ sessions[2].pc = "insert"
    /\ NormalizedName[sessions[1].raw] = NormalizedName[sessions[2].raw]

\* C10: no committed state holds two Company rows with the same
\* normalized_name, whatever the interleaving of two concurrent
\* find_or_create_company calls.
C10_NoDuplicateNormalizedName ==
    \A i, j \in 1..Len(companies) :
        companies[i].normalized_name = companies[j].normalized_name => i = j

\* ------------------------------------------------------------------ scoring.py: defaults

\* Python's dict.get(key, default) on a dict modelled as a function
Get(d, k, default) == IF k \in DOMAIN d THEN d[k] ELSE default

EmptyDict == [ k \in {} |-> 0 ]

\* round(n / d) to the nearest integer, ties to the even one (Python's round
\* on the exact quotient); n >= 0, d > 0
RoundHalfEven(n, d) ==
    LET q == n \div d
        r == n % d
    IN  IF 2 * r < d THEN q
        ELSE IF 2 * r > d THEN q + 1
        ELSE IF q % 2 = 0 THEN q ELSE q + 1

RECURSIVE SumSeq(_)
SumSeq(s) == IF s = <<>> THEN 0 ELSE Head(s) + SumSeq(Tail(s))

RECURSIVE SumOver(_, _)
\* sum(d.values()) restricted to the keys K
SumOver(d, K) ==
    IF K = {} THEN 0
    ELSE LET k == CHOOSE x \in K : TRUE IN d[k] + SumOver(d, K \ {k})

\* DEFAULT_FIT_CRITERIA (weights in hundredths)
DEFAULT_FIT_CRITERIA ==
    [ employee_count |->
        [ weight |-> 20,
          thresholds |-> [ r \in {"1-9","10-49","50-99","100-199","200-499","500-999","1000+"} |->
              CASE r = "1-9" -> 10 [] r = "10-49" -> 25 [] r = "50-99" -> 45
                [] r = "100-199" -> 65 [] r = "200-499" -> 80 [] r = "500-999" -> 90
                [] r = "1000+" -> 100 ] ],
      entity_count |->
        [ weight |-> 20,
          thresholds |-> << [min |-> 1, max |-> 2, score |-> 20],
                            [min |-> 3, max |-> 5, score |-> 50],
                            [min |-> 6, max |-> 20, score |-> 80],
                            [min |-> 21, max |-> 999, score |-> 100] >> ],
      erp_compatibility |->
        [ weight |-> 15,
          scores |-> << [key |-> <<"e","x","c","e","l">>, score |-> 20],
                        [key |-> <<"a","f","a","s">>, score |-> 50],
                        [key |-> <<"e","x","a","c","t">>, score |-> 50],
                        [key |-> <<"t","w","i","n","f","i","e","l","d">>, score |-> 50],
                        [key |-> <<"s","a","p">>, score |-> 90],
                        [key |-> <<"o","r","a","c","l","e">>, score |-> 90],
                        [key |-> <<"u","n","i","t","4">>, score |-> 70],
                        [key |-> <<"m","i","c","r","o","s","o","f","t"," ","d","y","n","a","m","i","c","s">>, score |-> 80],
                        [key |-> <<"n","e","t","s","u","i","t","e">>, score |-> 85] >> ],
      no_existing_automation |->
        [ weight |-> 15,
          scores |-> [ has_tool |-> 10, unknown |-> 50, confirmed_none |-> 90 ] ],
      revenue |->
        [ weight |-> 15,
          thresholds |-> [ r \in {"<1M","1M-10M","10M-50M","50M-100M","100M-500M","500M+"} |->
              CASE r = "<1M" -> 10 [] r = "1M-10M" -> 30 [] r = "10M-50M" -> 60
                [] r = "50M-100M" -> 80 [] r = "100M-500M" -> 90 [] r = "500M+" -> 100 ] ],
      sector_fit |->
        [ weight |-> 10,
          preferred_sbi_prefixes |-> << <<"4","1">>, <<"4","2">>, <<"4","3">>, <<"4","6">>,
                                        <<"4","7">>, <<"6","2">>, <<"6","3">>, <<"6","9">>,
                                        <<"7","0">> >> ],
      multi_language |->
        [ weight |-> 5,
          scores |-> [ single |-> 20, multi |-> 80 ] ] ]

EMPLOYEE_RANGE_ORDER == <<"1-9","10-49","50-99","100-199","200-499","500-999","1000+">>
REVENUE_RANGE_ORDER == <<"<1M","1M-10M","10M-50M","50M-100M","100M-500M","500M+">>

\* DEFAULT_MINIMUM_FILTERS
DEFAULT_MINIMUM_FILTERS ==
    [ employee_count |->
        [ enabled |-> FALSE, min_range |-> "50-99", range_order |-> EMPLOYEE_RANGE_ORDER ],
      revenue |->
        [ enabled |-> FALSE, min_range |-> "10M-50M", range_order |-> REVENUE_RANGE_ORDER ] ]

\* DEFAULT_EXCLUDED_COMPANY_TYPES
DEFAULT_EXCLUDED_COMPANY_TYPES ==
    [ enabled |-> TRUE,
      excluded_sbi_prefixes |-> << <<"7","8">> >>,
      excluded_name_keywords |-> <<
          <<"d","e","t","a","c","h","e","r","i","n","g">>,
          <<"u","i","t","z","e","n","d">>,
          <<"s","t","a","f","f","i","n","g">>,
          <<"r","e","c","r","u","i","t","m","e","n","t">>,
          <<"i","n","t","e","r","i","m">>,
          <<"p","a","y","r","o","l","l">>,
          <<"w","e","r","v","i","n","g">>,
          <<"s","e","l","e","c","t","i","e">>,
          <<"f","l","e","x","w","e","r","k">>,
          <<"t","a","l","e","n","t"," ","c","o","n","n","e","c","t">>,
          <<"r","a","n","d","s","t","a","d">>,
          <<"t","e","m","p","o","-","t","e","a","m">>,
          <<"m","a","n","p","o","w","e","r">>,
          <<"a","d","e","c","c","o">>,
          <<"h","a","y","s">>,
          <<"b","r","u","n","e","l">>,
          <<"y","a","c","h","t">>,
          <<"m","i","c","h","a","e","l"," ","p","a","g","e">>,
          <<"r","o","b","e","r","t"," ","h","a","l","f">>,
          <<"r","o","b","e","r","t"," ","w","a","l","t","e","r","s">> >> ]

\* DEFAULT_TIMING_SIGNALS
DEFAULT_TIMING_SIGNALS ==
    [ vacancy_age_over_60_days |-> 3,
      multiple_vacancies_same_role |-> 4,
      repeated_publication |-> 3,
      multi_platform |-> 2,
      management_vacancy |-> 2 ]

DEFAULT_SCORE_THRESHOLDS == [ hot |-> 75, warm |-> 50, monitor |-> 25 ]

\* ------------------------------------------------------------------ scoring.py: values

\* the values an extracted_data field can hold: None, a string, a list whose
\* elements are strings or None
NoneVal == [ t |-> "none" ]
StrVal(s) == [ t |-> "str", v |-> s ]
ListVal(l) == [ t |-> "list", v |-> l ]
Absent == [ t |-> "absent" ]

\* Vacancy.extracted_data is NULL
NoneDict == [ k \in {"None"} |-> NoneVal ]

\* Python truthiness of an extracted_data dict (None and {} are falsy)
DictTruthy(d) == DOMAIN d # {} /\ DOMAIN d # {"None"}

\* Python truthiness of a field value
ValTruthy(x) ==
    CASE x.t = "none" -> FALSE
      [] x.t = "absent" -> FALSE
      [] x.t = "str" -> x.v # <<>>
      [] x.t = "list" -> x.v # <<>>

Range(s) == { s[i] : i \in DOMAIN s }

\* str(x) of a list element: the string itself, or "None"
ElemStr(x) == IF x = None THEN <<"N","o","n","e">> ELSE x

\* len(str(x)) for a field value; a list prints as its repr, "['a', 'b']"
RECURSIVE ReprLenItems(_)
ReprLenItems(l) ==
    IF l = <<>> THEN 0
    ELSE (IF Head(l) = None THEN 4 ELSE Len(Head(l)) + 2)
         + (IF Len(l) > 1 THEN 2 ELSE 0) + ReprLenItems(Tail(l))

StrLenOf(x) ==
    CASE x.t = "str" -> Len(x.v)
      [] x.t = "list" -> 2 + ReprLenItems(x.v)
      [] OTHER -> 4

\* list(set(xs)): the distinct elements in an order the runtime picks
RECURSIVE ListOfSet(_)
ListOfSet(E) ==
    IF E = {} THEN { <<>> }
    ELSE UNION { { <<x>> \o p : p \in ListOfSet(E \ {x}) } : x \in E }

\* " ".join(str(x) for x in l)
RECURSIVE JoinWithSpace(_)
JoinWithSpace(l) ==
    IF l = <<>> THEN <<>>
    ELSE IF Len(l) = 1 THEN ElemStr(Head(l))
    ELSE ElemStr(Head(l)) \o <<" ">> \o JoinWithSpace(Tail(l))

\* One assignment of _aggregate_extracted_data's inner loop: the values
\* merged[key] can hold after a vacancy with `value` for the key is merged
\* into `cur` (Absent: key not in merged)
MergeValue(cur, value) ==
    IF value.t = "none"
    THEN IF cur.t = "absent" THEN { value } ELSE { cur }
    ELSE IF cur.t = "absent" THEN { value }
    ELSE IF value.t = "list"
    THEN LET existing == IF cur.t = "list" THEN cur.v
                         ELSE IF cur.t = "str" THEN << cur.v >>
                         ELSE << None >>
         IN  { ListVal(p) : p \in ListOfSet(Range(existing) \cup Range(value.v)) }
    ELSE IF value.v # <<>> /\ (~ValTruthy(cur) \/ Len(value.v) > StrLenOf(cur))
    THEN { value }
    ELSE { cur }

\* merged[key] after the loop over `vacs`, for each value in curSet before it
RECURSIVE MergeKey(_, _, _)
MergeKey(curSet, key, vacs) ==
    IF vacs = <<>> THEN curSet
    ELSE LET d == Head(vacs).extracted_data
         IN  IF ~DictTruthy(d) \/ key \notin DOMAIN d
             THEN MergeKey(curSet, key, Tail(vacs))
             ELSE MergeKey(UNION { MergeValue(cur, d[key]) : cur \in curSet },
                           key, Tail(vacs))

\* _aggregate_extracted_data: the merged dicts the call can return
_aggregate_extracted_data(vacs) ==
    LET keys == UNION { IF DictTruthy(vacs[i].extracted_data)
                        THEN DOMAIN vacs[i].extracted_data ELSE {} : i \in DOMAIN vacs }
        poss == [ k \in keys |-> MergeKey({Absent}, k, vacs) ]
    IN  { m \in [ keys -> UNION { poss[k] : k \in keys } ] :
            \A k \in keys : m[k] \in poss[k] }

\* ------------------------------------------------------------------ scoring.py: fit score

\* `x or "unknown"` on a range column
RangeOrUnknown(r) == IF r = NoRange \/ r = "" THEN "unknown" ELSE r

\* str(sbi) of one stored industry code: a plain string prints as itself, a
\* dict as its repr
SbiText(sbi) ==
    IF sbi.form = "str" THEN sbi.code
    ELSE <<"{","'","c","o","d","e","'",":"," ","'">> \o sbi.code \o <<"'",",">>
         \o <<" ","'","d","e","s","c","r","i","p","t","i","o","n","'",":"," ","'","'","}">>

Unknown == <<"u","n","k","n","o","w","n">>

\* the inner loop over criterion["scores"].items() for one erp
RECURSIVE ErpScanKeys(_, _, _)
ErpScanKeys(erp, scores, best) ==
    IF scores = <<>> THEN best
    ELSE LET item == Head(scores)
             hit == Contains(Lower(erp), item.key) /\ item.score > best.score
         IN  ErpScanKeys(erp, Tail(scores),
                         IF hit THEN [ score |-> item.score, erp |-> erp ] ELSE best)

\* the loop over erp_systems; a None element makes erp.lower() raise
RECURSIVE ErpScan(_, _, _)
ErpScan(items, scores, best) ==
    IF items = <<>> THEN best
    ELSE IF Head(items) = None THEN [ score |-> -1, erp |-> None ]
    ELSE ErpScan(Tail(items), scores, ErpScanKeys(Head(items), scores, best))

\* what `for erp in erp_systems` iterates over: the elements of a list, the
\* characters of a string
ErpItems(x) ==
    IF ~ValTruthy(x) THEN <<>>
    ELSE IF x.t = "list" THEN x.v
    ELSE [ i \in 1..Len(x.v) |-> << x.v[i] >> ]

\* the text a keyword criterion searches: a list joined by blanks, else str()
TextOf(x, default) ==
    IF ~ValTruthy(x) THEN default
    ELSE IF x.t = "list" THEN JoinWithSpace(x.v)
    ELSE x.v

automation_keywords == << <<"b","a","s","w","a","r","e">>, <<"c","o","u","p","a">>, <<"t","r","a","d","e","s","h","i","f","t">>, <<"r","p","a">> >>
no_automation_keywords == << <<"g","e","e","n">>, <<"n","o">>, <<"m","a","n","u","a","l">> >>
language_keywords == << <<"i","n","t","e","r","n","a","t","i","o","n","a","l">>, <<"m","u","l","t","i">>, <<"l","a","n","g","u","a","g","e">>, <<"e","n","g","l","i","s","h">>, <<"g","e","r","m","a","n">>, <<"f","r","e","n","c","h">> >>
mgmt_keywords == << <<"m","a","n","a","g","e","r">>, <<"t","e","a","m","l","e","i","d","e","r">>, <<"h","o","o","f","d">>, <<"d","i","r","e","c","t","o","r">>, <<"l","e","a","d">>, <<"s","e","n","i","o","r">> >>

AnyKeywordIn(text, kws) == \E i \in DOMAIN kws : Contains(Lower(text), kws[i])

AutomationStatus(text) ==
    IF AnyKeywordIn(text, automation_keywords) THEN "has_tool"
    ELSE IF AnyKeywordIn(text, no_automation_keywords) THEN "confirmed_none"
    ELSE "unknown"

\* the first threshold bucket holding entity_count, else the default 20
EntityScore(thresholds, entity_count) ==
    LET hits == { i \in DOMAIN thresholds :
                    thresholds[i].min <= entity_count /\ entity_count <= thresholds[i].max }
    IN  IF hits = {} THEN 20 ELSE thresholds[Min(hits)].score

\* the first code (in list order) that starts with a preferred prefix
SectorMatch(sbi_codes, preferred) ==
    LET hits == { i \in DOMAIN sbi_codes :
                    \E j \in DOMAIN preferred : StartsWith(SbiText(sbi_codes[i]), preferred[j]) }
    IN  IF hits = {} THEN None ELSE SbiText(sbi_codes[Min(hits)])

\* `company.sbi_codes or []`
CodesOrEmpty(codes) == IF codes = NoCodes THEN <<>> ELSE codes

CriterionKeys ==
    << "employee_count", "entity_count", "erp_compatibility", "no_existing_automation",
       "revenue", "sector_fit", "multi_language" >>

\* one criterion's breakdown entry, given the merged extracted data
CriterionEntry(key, company, extracted, criterion) ==
    CASE key = "employee_count" ->
           [ score |-> Get(Get(criterion, "thresholds", EmptyDict),
                           RangeOrUnknown(company.employee_range), 30),
             value |-> RangeOrUnknown(company.employee_range),
             weight |-> criterion.weight ]
      [] key = "entity_count" ->
           LET ec == IF company.entity_count = NoInt \/ company.entity_count = 0
                     THEN 1 ELSE company.entity_count
           IN  [ score |-> EntityScore(Get(criterion, "thresholds", <<>>), ec),
                 value |-> ec,
                 weight |-> criterion.weight ]
      [] key = "erp_compatibility" ->
           LET items == ErpItems(Get(extracted, "erp_systems", NoneVal))
               best == ErpScan(items, Get(criterion, "scores", <<>>),
                               [ score |-> 0, erp |-> Unknown ])
           IN  [ score |-> IF items = <<>> THEN 40 ELSE best.score,
                 value |-> best.erp,
                 weight |-> criterion.weight ]
      [] key = "no_existing_automation" ->
           LET status_val == AutomationStatus(
                   TextOf(Get(extracted, "automation_status", NoneVal), Unknown))
           IN  [ score |-> criterion.scores[status_val],
                 value |-> status_val,
                 weight |-> criterion.weight ]
      [] key = "revenue" ->
           [ score |-> Get(Get(criterion, "thresholds", EmptyDict),
                           RangeOrUnknown(company.revenue_range), 30),
             value |-> RangeOrUnknown(company.revenue_range),
             weight |-> criterion.weight ]
      [] key = "sector_fit" ->
           LET matched == SectorMatch(CodesOrEmpty(company.sbi_codes),
                                      Get(criterion, "preferred_sbi_prefixes", <<>>))
           IN  [ score |-> IF matched = None THEN 30 ELSE 80,
                 value |-> IF matched = None THEN <<"n","o","n","e">> ELSE matched,
                 weight |-> criterion.weight ]
      [] key = "multi_language" ->
           LET is_multi == AnyKeywordIn(
                   TextOf(Get(extracted, "complexity_signals", NoneVal), <<>>),
                   language_keywords)
           IN  [ score |-> IF is_multi THEN criterion.scores.multi ELSE criterion.scores.single,
                 value |-> IF is_multi THEN "multi" ELSE "single",
                 weight |-> criterion.weight ]

\* round(min(total_score / total_weight, 100), 1) in tenths
FitFinal(total_score, total_weight) ==
    IF total_weight > 0
    THEN LET t == RoundHalfEven(10 * total_score, total_weight)
         IN  IF t > 1000 THEN 1000 ELSE t
    ELSE 0

\* _compute_fit_score for one merged extracted dict
FitFor(company, extracted, criteria) ==
    LET present == { k \in Range(CriterionKeys) : k \in DOMAIN criteria }
        breakdown == [ k \in present |-> CriterionEntry(k, company, extracted, criteria[k]) ]
        products == [ k \in present |-> breakdown[k].score * breakdown[k].weight ]
        weights == [ k \in present |-> breakdown[k].weight ]
        erpRaised == "erp_compatibility" \in present
                     /\ breakdown["erp_compatibility"].score = -1
    IN  IF erpRaised
        THEN [ raised |-> TRUE, score |-> 0, breakdown |-> EmptyDict ]
        ELSE [ raised |-> FALSE,
               score |-> FitFinal(SumOver(products, present), SumOver(weights, present)),
               breakdown |-> breakdown ]

\* _compute_fit_score: the results the call can produce (the merged lists'
\* order is the runtime's choice)
_compute_fit_score(company, vacs, criteria) ==
    { FitFor(company, m, criteria) : m \in _aggregate_extracted_data(vacs) }

\* ------------------------------------------------------------------ scoring.py: timing score

\* _vacancy_age_date: published_at when set, else first_seen_at (days)
_vacancy_age_date(v) == IF v.published_at # NoDate THEN v.published_at ELSE v.first_seen_at

\* max((now - _vacancy_age_date(v)).days for v in vacancies) if vacancies else 0
OldestDays(vacs, now) ==
    IF vacs = <<>> THEN 0
    ELSE Max({ now - _vacancy_age_date(vacs[i]) : i \in DOMAIN vacs })

\* len({v.source for v in vacancies})
PlatformSet(vacs) == { vacs[i].source : i \in DOMAIN vacs }

\* points of a signal that fired: signals.get(key, default)
SignalEntry(fired, signals, key, default, value) ==
    [ points |-> IF fired THEN Get(signals, key, default) ELSE 0, value |-> value ]

\* round(min(points / max_points * 100, 100), 1) in tenths
TimingFinal(points, max_points) ==
    IF max_points > 0
    THEN LET t == RoundHalfEven(1000 * points, max_points)
         IN  IF t > 1000 THEN 1000 ELSE t
    ELSE 0

_compute_timing_score(vacs, signals, now) ==
    LET oldest_days == OldestDays(vacs, now)
        repeated == \E i \in DOMAIN vacs : vacs[i].last_seen_at - vacs[i].first_seen_at > 14
        platform_set == PlatformSet(vacs)
        has_mgmt == \E i \in DOMAIN vacs : AnyKeywordIn(vacs[i].job_title, mgmt_keywords)
        breakdown ==
            [ vacancy_age_over_60_days |->
                SignalEntry(oldest_days > 60, signals, "vacancy_age_over_60_days", 3, oldest_days),
              multiple_vacancies_same_role |->
                SignalEntry(Len(vacs) >= 2, signals, "multiple_vacancies_same_role", 4, Len(vacs)),
              repeated_publication |->
                SignalEntry(repeated, signals, "repeated_publication", 3, repeated),
              multi_platform |->
                SignalEntry(Cardinality(platform_set) >= 2, signals, "multi_platform", 2,
                            platform_set),
              management_vacancy |->
                SignalEntry(has_mgmt, signals, "management_vacancy", 2, has_mgmt) ]
        points == SumOver([ k \in DOMAIN breakdown |-> breakdown[k].points ], DOMAIN breakdown)
        max_points == SumOver(signals, DOMAIN signals)
    IN  [ score |-> TimingFinal(points, max_points),
          total_points |-> points,
          max_points |-> max_points,
          breakdown |-> breakdown ]

\* ------------------------------------------------------------------ scoring.py: filters

\* list.index(x), 0 when x is not in the list
IndexOf(order, x) ==
    LET hits == { i \in DOMAIN order : order[i] = x }
    IN  IF hits = {} THEN 0 ELSE Min(hits)

\* a filter that also turns away the companies at the minimum itself
AtOrBelowMinimum(filter, company_range, default_min) ==
    /\ Get(filter, "enabled", FALSE)
    /\ company_range # NoRange /\ company_range # ""
    /\ LET range_order == Get(filter, "range_order", <<>>)
           min_range == Get(filter, "min_range", default_min)
       IN  /\ IndexOf(range_order, min_range) > 0
           /\ IndexOf(range_order, company_range) > 0
           /\ IndexOf(range_order, company_range) <= IndexOf(range_order, min_range)

\* one of the two blocks of _check_minimum_filters: TRUE when the company is
\* below the minimum
BelowMinimum(filter, company_range, default_min) ==
    /\ Get(filter, "enabled", FALSE)
    /\ company_range # NoRange /\ company_range # ""
    /\ LET range_order == Get(filter, "range_order", <<>>)
           min_range == Get(filter, "min_range", default_min)
       IN  /\ IndexOf(range_order, min_range) > 0
           /\ IndexOf(range_order, company_range) > 0
           /\ IndexOf(range_order, company_range) < IndexOf(range_order, min_range)

\* _check_minimum_filters: the reason, or None
_check_minimum_filters(company, filters) ==
    IF BelowMinimum(Get(filters, "employee_count", EmptyDict), company.employee_range, "1-9")
    THEN [ rule |-> "too_small", actual |-> company.employee_range,
           minimum |-> Get(filters.employee_count, "min_range", "1-9") ]
    ELSE IF BelowMinimum(Get(filters, "revenue", EmptyDict), company.revenue_range, "<1M")
    THEN [ rule |-> "revenue_too_low", actual |-> company.revenue_range,
           minimum |-> Get(filters.revenue, "min_range", "<1M") ]
    ELSE [ rule |-> "None" ]

\* the first (code, prefix) hit of the SBI loop, 0 when none
ExcludedSbiIndex(codes, prefixes) ==
    LET hits == { i \in DOMAIN codes :
                    \E j \in DOMAIN prefixes : StartsWith(SbiText(codes[i]), prefixes[j]) }
    IN  IF hits = {} THEN 0 ELSE Min(hits)

\* the first keyword of the list found in the name, 0 when none
ExcludedKeywordIndex(name, keywords) ==
    LET hits == { i \in DOMAIN keywords : Contains(Lower(name), Lower(keywords[i])) }
    IN  IF hits = {} THEN 0 ELSE Min(hits)

\* _check_excluded_company_types: the reason, or None
_check_excluded_company_types(company, exclusions) ==
    IF ~Get(exclusions, "enabled", FALSE) THEN [ rule |-> "None" ]
    ELSE LET excluded_sbi == Get(exclusions, "excluded_sbi_prefixes", <<>>)
             codes == CodesOrEmpty(company.sbi_codes)
             name_keywords == Get(exclusions, "excluded_name_keywords", <<>>)
             s == ExcludedSbiIndex(codes, excluded_sbi)
             k == IF company.normalized_name = <<>> THEN 0
                  ELSE ExcludedKeywordIndex(company.normalized_name, name_keywords)
         IN  IF s > 0 THEN [ rule |-> "sbi", sbi |-> SbiText(codes[s]) ]
             ELSE IF k > 0 THEN [ rule |-> "name", keyword |-> name_keywords[k] ]
             ELSE [ rule |-> "None" ]

\* ------------------------------------------------------------------ scoring.py: the engine

\* _get_scoring_config: the config dict for a profile; "raise" when
\* scalar_one_or_none finds more than one active row
_get_scoring_config(profile_id) ==
    LET hits == { i \in DOMAIN configs :
                    configs[i].profile_id = profile_id /\ configs[i].is_active }
    IN  IF hits = {}
        THEN [ kind |-> "config",
               fit_weight |-> 60,
               timing_weight |-> 40,
               fit_criteria |-> DEFAULT_FIT_CRITERIA,
               timing_signals |-> DEFAULT_TIMING_SIGNALS,
               score_thresholds |-> DEFAULT_SCORE_THRESHOLDS,
               minimum_filters |-> DEFAULT_MINIMUM_FILTERS,
               excluded_company_types |-> DEFAULT_EXCLUDED_COMPANY_TYPES ]
        ELSE IF Cardinality(hits) > 1 THEN [ kind |-> "raise" ]
        ELSE LET config == configs[CHOOSE i \in hits : TRUE]
                 thresholds == IF DOMAIN config.score_thresholds = {}
                               THEN DEFAULT_SCORE_THRESHOLDS ELSE config.score_thresholds
             IN  [ kind |-> "config",
                   fit_weight |-> config.fit_weight,
                   timing_weight |-> config.timing_weight,
                   fit_criteria |-> IF DOMAIN config.fit_criteria = {}
                                    THEN DEFAULT_FIT_CRITERIA ELSE config.fit_criteria,
                   timing_signals |-> IF DOMAIN config.timing_signals = {}
                                      THEN DEFAULT_TIMING_SIGNALS ELSE config.timing_signals,
                   score_thresholds |-> thresholds,
                   minimum_filters |->
                       Get(thresholds, "minimum_filters", DEFAULT_MINIMUM_FILTERS),
                   excluded_company_types |->
                       Get(thresholds, "excluded_company_types", DEFAULT_EXCLUDED_COMPANY_TYPES) ]

\* select(Lead).where(company_id, search_profile_id)
LeadHits(tbl, company_id, profile_id) ==
    { i \in DOMAIN tbl :
        tbl[i].company_id = company_id /\ tbl[i].search_profile_id = profile_id }

\* what a call of _score_company leaves behind: the leads table of the
\* session, the id sequence, and the lead it returns (0: None)
Outcome(kind, tbl, nextId, lead) ==
    [ kind |-> kind, leads |-> tbl, nextLeadId |-> nextId, lead |-> lead ]

\* _mark_excluded
_mark_excluded(tbl, nextId, company_id, profile_id, reason, now) ==
    LET hits == LeadHits(tbl, company_id, profile_id)
    IN  IF Cardinality(hits) > 1 THEN Outcome("raise", tbl, nextId, 0)
        ELSE IF hits # {}
        THEN LET i == CHOOSE i \in hits : TRUE
             IN  Outcome("lead",
                         [ tbl EXCEPT ![i].status = "excluded",
                                      ![i].scoring_breakdown = [ excluded_reason |-> reason ],
                                      ![i].scored_at = now ],
                         nextId, tbl[i].id)
        ELSE Outcome("lead",
                     Append(tbl, [ id |-> nextId,
                                   company_id |-> company_id,
                                   search_profile_id |-> profile_id,
                                   fit_score |-> 0,
                                   timing_score |-> 0,
                                   composite_score |-> 0,
                                   status |-> "excluded",
                                   scoring_breakdown |-> [ excluded_reason |-> reason ],
                                   vacancy_count |-> 0,
                                   oldest_vacancy_days |-> 0,
                                   platform_count |-> 0,
                                   scored_at |-> now ]),
                     nextId + 1, nextId)

\* the weighted sum with the two weights exchanged
CompositeSwapped(fit_score, timing_score, fit_weight, timing_weight) ==
    fit_score * timing_weight + timing_score * fit_weight

\* composite = fit_score * fit_weight + timing_score * timing_weight
\* (tenths times hundredths: thousandths of a point)
Composite(fit_score, timing_score, fit_weight, timing_weight) ==
    fit_score * fit_weight + timing_score * timing_weight

\* the status from the thresholds, on the composite before it is rounded
StatusFor(composite, thresholds) ==
    IF composite >= 1000 * Get(thresholds, "hot", 75) THEN "hot"
    ELSE IF composite >= 1000 * Get(thresholds, "warm", 50) THEN "warm"
    ELSE "monitor"

\* a rescore that writes the computed status over any stored one
StatusOverwritten(current, computed) == computed

\* `if lead.status != "dismissed": lead.status = status`
StatusAfterRescore(current, computed) ==
    IF current # "dismissed" THEN computed ELSE current

\* a pass that goes on to score an empty vacancy list
NeverNothingToScore(active) == FALSE

\* `if not vacancies: return None`
NothingToScore(active) == active = {}

\* the part of _score_company after the vacancies are loaded, for one order
\* of the vacancies and one result of the fit computation
Upsert(tbl, nextId, company_id, profile_id, config, vacs, fit, now) ==
    LET timing == _compute_timing_score(vacs, config.timing_signals, now)
        composite == Composite(fit.score, timing.score,
                               config.fit_weight, config.timing_weight)
        status == StatusFor(composite, config.score_thresholds)
        breakdown == [ fit |-> [ score |-> fit.score, breakdown |-> fit.breakdown ],
                       timing |-> timing,
                       fit_weight |-> config.fit_weight,
                       timing_weight |-> config.timing_weight ]
        hits == LeadHits(tbl, company_id, profile_id)
        fields == [ fit_score |-> fit.score,
                    timing_score |-> timing.score,
                    composite_score |-> RoundHalfEven(composite, 100),
                    scoring_breakdown |-> breakdown,
                    vacancy_count |-> Len(vacs),
                    oldest_vacancy_days |-> OldestDays(vacs, now),
                    platform_count |-> Cardinality(PlatformSet(vacs)),
                    scored_at |-> now ]
    IN  IF fit.raised \/ Cardinality(hits) > 1 THEN Outcome("raise", tbl, nextId, 0)
        ELSE IF hits # {}
        THEN LET i == CHOOSE i \in hits : TRUE
             IN  Outcome("lead",
                         [ tbl EXCEPT ![i] =
                             fields @@ [ id |-> tbl[i].id,
                                         company_id |-> company_id,
                                         search_profile_id |-> profile_id,
                                         status |-> StatusAfterRescore(tbl[i].status, status) ] ],
                         nextId, tbl[i].id)
        ELSE Outcome("lead",
                     Append(tbl, fields @@ [ id |-> nextId,
                                             company_id |-> company_id,
                                             search_profile_id |-> profile_id,
                                             status |-> status ]),
                     nextId + 1, nextId)

\* the active vacancies of a company in a profile
ActiveVacancies(company_id, profile_id) ==
    { v \in vacancies : /\ v.company_id = company_id
                        /\ v.search_profile_id = profile_id
                        /\ v.status = "active" }

\* _score_company: the outcomes the call can have (the store's order of the
\* vacancies and the order of merged lists are not the caller's choice)
_score_company(tbl, nextId, company_id, profile_id, config, now) ==
    LET rows == { i \in DOMAIN companies : companies[i].id = company_id }
    IN  IF rows = {} THEN { Outcome("none", tbl, nextId, 0) }
        ELSE
        LET company == companies[CHOOSE i \in rows : TRUE]
            typeReason == _check_excluded_company_types(company, config.excluded_company_types)
            sizeReason == _check_minimum_filters(company, config.minimum_filters)
            active == ActiveVacancies(company_id, profile_id)
        IN  IF typeReason.rule # "None"
            THEN { _mark_excluded(tbl, nextId, company_id, profile_id, typeReason, now) }
            ELSE IF sizeReason.rule # "None"
            THEN { _mark_excluded(tbl, nextId, company_id, profile_id, sizeReason, now) }
            ELSE IF NothingToScore(active) THEN { Outcome("none", tbl, nextId, 0) }
            ELSE UNION { { Upsert(tbl, nextId, company_id, profile_id, config, vacs, fit, now) :
                             fit \in _compute_fit_score(company, vacs, config.fit_criteria) } :
                         vacs \in ListOfSet(active) }

ZeroStats == [ scored |-> 0, hot |-> 0, warm |-> 0, monitor |-> 0, excluded |-> 0 ]

\* stats["scored"] += 1; if lead.status in stats: stats[lead.status] += 1
CountLead(stats, status) ==
    LET s1 == [ stats EXCEPT !.scored = @ + 1 ]
    IN  IF status \in DOMAIN stats THEN [ s1 EXCEPT ![status] = @ + 1 ] ELSE s1

LeadById(tbl, id) == tbl[CHOOSE i \in DOMAIN tbl : tbl[i].id = id]

\* the loop of score_profile over company_ids, from the session state `acc`
RECURSIVE ScoreAll(_, _, _, _, _)
ScoreAll(ids, acc, profile_id, config, now) ==
    IF ids = <<>> \/ acc.kind = "raise" THEN { acc }
    ELSE UNION {
           ScoreAll(Tail(ids),
                    [ kind |-> IF o.kind = "raise" THEN "raise" ELSE "ok",
                      leads |-> o.leads,
                      nextLeadId |-> o.nextLeadId,
                      stats |-> IF o.kind = "lead"
                                THEN CountLead(acc.stats, LeadById(o.leads, o.lead).status)
                                ELSE acc.stats ],
                    profile_id, config, now) :
           o \in _score_company(acc.leads, acc.nextLeadId, Head(ids), profile_id, config, now) }

\* select(distinct(Vacancy.company_id)) of the profile's active vacancies
CompaniesToScore(profile_id) ==
    { v.company_id : v \in { w \in vacancies : /\ w.search_profile_id = profile_id
                                               /\ w.company_id # NoInt
                                               /\ w.status = "active" } }

Ret(op, ok, company, profile, lead, stats) ==
    [ op |-> op, ok |-> ok, company |-> company, profile |-> profile,
      lead |-> lead, stats |-> stats ]

\* score_profile: the whole pass, committed at its end; an exception leaves
\* the session uncommitted
score_profile(profile_id) ==
    LET config == _get_scoring_config(profile_id)
        ids == CompaniesToScore(profile_id)
    IN  /\ IF config.kind = "raise"
           THEN /\ ret' = Ret("score_profile", FALSE, 0, profile_id, 0, ZeroStats)
                /\ UNCHANGED <<leads, nextLeadId>>
           ELSE IF ids = {}
           THEN /\ ret' = Ret("score_profile", TRUE, 0, profile_id, 0,
                              [ scored |-> 0, hot |-> 0, warm |-> 0, monitor |-> 0 ])
                /\ UNCHANGED <<leads, nextLeadId>>
           ELSE \E order \in ListOfSet(ids) :
                \E final \in ScoreAll(order,
                                      [ kind |-> "ok", leads |-> leads,
                                        nextLeadId |-> nextLeadId, stats |-> ZeroStats ],
                                      profile_id, config, clock) :
                    IF final.kind = "raise"
                    THEN /\ ret' = Ret("score_profile", FALSE, 0, profile_id, 0, ZeroStats)
                         /\ UNCHANGED <<leads, nextLeadId>>
                    ELSE /\ leads' = final.leads
                         /\ nextLeadId' = final.nextLeadId
                         /\ ret' = Ret("score_profile", TRUE, 0, profile_id, 0, final.stats)
        /\ UNCHANGED <<vacancies, configs, clock>>

\* score_single_company
score_single_company(company_id, profile_id) ==
    LET config == _get_scoring_config(profile_id)
    IN  /\ IF config.kind = "raise"
           THEN /\ ret' = Ret("score_single_company", FALSE, company_id, profile_id, 0,
                              ZeroStats)
                /\ UNCHANGED <<leads, nextLeadId>>
           ELSE \E o \in _score_company(leads, nextLeadId, company_id, profile_id,
                                        config, clock) :
                    IF o.kind = "raise"
                    THEN /\ ret' = Ret("score_single_company", FALSE, company_id,
                                       profile_id, 0, ZeroStats)
                         /\ UNCHANGED <<leads, nextLeadId>>
                    ELSE /\ leads' = o.leads
                         /\ nextLeadId' = o.nextLeadId
                         /\ ret' = Ret("score_single_company", TRUE, company_id,
                                       profile_id, o.lead, ZeroStats)
        /\ UNCHANGED <<vacancies, configs, clock>>

\* api/leads.py: update_lead_status
VALID_STATUSES == { "hot", "warm", "monitor", "dismissed", "excluded" }

update_lead_status(lead_id, status) ==
    /\ status \in VALID_STATUSES
    /\ \E i \in DOMAIN leads :
          /\ leads[i].id = lead_id
          /\ leads' = [ leads EXCEPT ![i].status = status ]
    /\ ret' = Ret("update_lead_status", TRUE, 0, 0, lead_id, ZeroStats)
    /\ UNCHANGED <<vacancies, nextLeadId, configs, clock>>

\* api/scoring.py: update_scoring_config; the payload is a dict holding the
\* fields the request supplies
WeightsAccepted(payload) ==
    ("fit_weight" \in DOMAIN payload /\ "timing_weight" \in DOMAIN payload)
        => LET total == payload.fit_weight + payload.timing_weight
           IN  total - 100 <= 1 /\ 100 - total <= 1

NewScoringConfig(profile_id, payload, current, hasCurrent, max_version) ==
    [ id |-> Len(configs) + 1,
      profile_id |-> profile_id,
      version |-> max_version + 1,
      is_active |-> TRUE,
      fit_weight |-> IF "fit_weight" \in DOMAIN payload THEN payload.fit_weight
                     ELSE IF hasCurrent THEN current.fit_weight ELSE 60,
      timing_weight |-> IF "timing_weight" \in DOMAIN payload THEN payload.timing_weight
                        ELSE IF hasCurrent THEN current.timing_weight ELSE 40,
      fit_criteria |-> IF "fit_criteria" \in DOMAIN payload THEN payload.fit_criteria
                       ELSE IF hasCurrent THEN current.fit_criteria ELSE EmptyDict,
      timing_signals |-> IF "timing_signals" \in DOMAIN payload THEN payload.timing_signals
                         ELSE IF hasCurrent THEN current.timing_signals ELSE EmptyDict,
      score_thresholds |-> IF "score_thresholds" \in DOMAIN payload
                           THEN payload.score_thresholds
                           ELSE IF hasCurrent THEN current.score_thresholds
                           ELSE DEFAULT_SCORE_THRESHOLDS ]

update_scoring_config(profile_id, payload) ==
    LET hits == { i \in DOMAIN configs :
                    configs[i].profile_id = profile_id /\ configs[i].is_active }
        versions == { configs[i].version : i \in
                        { j \in DOMAIN configs : configs[j].profile_id = profile_id } }
        max_version == IF versions = {} THEN 0 ELSE Max(versions)
    IN  /\ IF ~WeightsAccepted(payload) \/ Cardinality(hits) > 1
           THEN /\ ret' = Ret("update_scoring_config", FALSE, 0, profile_id, 0, ZeroStats)
                /\ UNCHANGED configs
           ELSE LET hasCurrent == hits # {}
                    i == IF hasCurrent THEN CHOOSE i \in hits : TRUE ELSE 0
                    current == IF hasCurrent THEN configs[i] ELSE EmptyDict
                    deactivated == IF hasCurrent
                                   THEN [ configs EXCEPT ![i].is_active = FALSE ]
                                   ELSE configs
                IN  /\ configs' = Append(deactivated,
                                         NewScoringConfig(profile_id, payload, current,
                                                          hasCurrent, max_version))
                    /\ ret' = Ret("update_scoring_config", TRUE, 0, profile_id, 0, ZeroStats)
        /\ UNCHANGED <<vacancies, leads, nextLeadId, clock>>

\* ------------------------------------------------------------------ the scoring runs

Profiles == {1, 2}

Name_HaysBV == <<"H","a","y","s"," ","B",".","V",".">>
Text_SAP == <<"S","A","P">>
Text_Basware == <<"B","a","s","w","a","r","e">>
Text_NoTool == <<"n","o"," ","t","o","o","l">>
Title_Clerk == <<"A","P"," ","M","e","d","e","w","e","r","k","e","r">>
Title_Manager == <<"A","P"," ","M","a","n","a","g","e","r">>
Code_6201 == [ form |-> "str", code |-> <<"6","2","0","1">> ]

Company(id, raw, employee_range, revenue_range, entity_count, sbi_codes) ==
    [ NewCompany(id, raw, normalize_company_name(raw)) EXCEPT
        !.employee_range = employee_range, !.revenue_range = revenue_range,
        !.entity_count = entity_count, !.sbi_codes = sbi_codes ]

\* a vacancies row; the columns the scoring engine does not read keep their defaults
Vacancy(id, company_id, profile_id, status, source, job_title, first_seen_at, last_seen_at, published_at, extracted_data) ==
    [ id |-> id, company_id |-> company_id, search_profile_id |-> profile_id,
      status |-> status, source |-> source, job_title |-> job_title,
      first_seen_at |-> first_seen_at, last_seen_at |-> last_seen_at,
      published_at |-> published_at, extracted_data |-> extracted_data ]

V_OldSap ==
    Vacancy(1, 1, 1, "active", "google_jobs", Title_Clerk, 10, 10, NoDate,
            [ erp_systems |-> ListVal(<< Text_SAP >>) ])
V_Basware ==
    Vacancy(2, 1, 1, "active", "google_jobs", Title_Clerk, 40, 40, NoDate,
            [ automation_status |-> StrVal(Text_Basware) ])
V_NullErp ==
    Vacancy(8, 1, 1, "active", "google_jobs", Title_Clerk, 95, 95, NoDate,
            [ erp_systems |-> NoneVal ])
V_NoTool ==
    Vacancy(3, 1, 1, "active", "indeed", Title_Manager, 95, 95, NoDate,
            [ automation_status |-> StrVal(Text_NoTool),
              erp_systems |-> ListVal(<< Text_SAP >>) ])
V_Plain ==
    Vacancy(4, 1, 1, "active", "google_jobs", Title_Clerk, 95, 95, 90, NoneDict)
V_Filled ==
    Vacancy(5, 1, 1, "filled", "google_jobs", Title_Clerk, 95, 95, NoDate, NoneDict)
V_OtherFilled ==
    Vacancy(6, 2, 1, "filled", "indeed", Title_Manager, 95, 95, NoDate, NoneDict)
V_OtherProfile ==
    Vacancy(7, 2, 2, "active", "indeed", Title_Manager, 20, 95, NoDate, NoneDict)

\* the stores the scoring runs start from: the companies and their vacancies
Scenarios ==
    { [ companies |-> << Company(1, Name_AcmeBV, NoRange, "50M-100M", 25, NoCodes) >>,
        vacancies |-> { V_OldSap } ],
      [ companies |-> << Company(1, Name_AcmeBV, "200-499", NoRange, 4, << Code_6201 >>) >>,
        vacancies |-> { V_Basware, V_NoTool } ],
      [ companies |-> << Company(1, Name_AcmeBV, NoRange, NoRange, NoInt, NoCodes) >>,
        vacancies |-> { V_NullErp, V_OldSap } ],
      [ companies |-> << Company(1, Name_HaysBV, NoRange, NoRange, NoInt, NoCodes) >>,
        vacancies |-> { V_Plain } ],
      [ companies |-> << Company(1, Name_HaysBV, "200-499", NoRange, NoInt, NoCodes) >>,
        vacancies |-> { V_Filled } ],
      [ companies |-> << Company(1, Name_AcmeBV, "200-499", NoRange, NoInt, NoCodes),
                         Company(2, Name_GlobexNV, NoRange, NoRange, NoInt, NoCodes) >>,
        vacancies |-> { V_Plain, V_OtherFilled, V_OtherProfile } ],
      [ companies |-> << Company(1, Name_AcmeBV, "10-49", NoRange, NoInt, NoCodes) >>,
        vacancies |-> { V_Plain } ],
      [ companies |-> << Company(1, Name_AcmeBV, "50-99", "1M-10M", NoInt, NoCodes) >>,
        vacancies |-> { V_Plain } ],
      [ companies |-> << Company(1, Name_AcmeBV, "11-50", "10M-50M", NoInt, NoCodes) >>,
        vacancies |-> { V_Plain } ],
      [ companies |-> << Company(1, Name_AcmeBV, NoRange, "1M-10M", NoInt, NoCodes) >>,
        vacancies |-> { V_Plain } ] }

\* the request bodies of update_scoring_config the runs use
Payload_SizeFilters ==
    [ score_thresholds |->
        [ hot |-> 75, warm |-> 50, monitor |-> 25,
          minimum_filters |->
            [ employee_count |-> [ enabled |-> TRUE, min_range |-> "50-99",
                                   range_order |-> EMPLOYEE_RANGE_ORDER ],
              revenue |-> [ enabled |-> TRUE, min_range |-> "10M-50M",
                            range_order |-> REVENUE_RANGE_ORDER ] ],
          excluded_company_types |-> [ enabled |-> FALSE ] ] ]
Payload_Retuned ==
    [ fit_weight |-> 70, timing_weight |-> 30,
      score_thresholds |-> [ hot |-> 60, warm |-> 40, monitor |-> 20 ] ]
Payload_BadWeights == [ fit_weight |-> 70, timing_weight |-> 40 ]

\* the requests: <<profile id, body>>
ConfigRequests ==
    { <<1, Payload_SizeFilters>>, <<1, Payload_Retuned>>, <<1, Payload_BadWeights>>,
      <<2, Payload_Retuned>> }

\* the status the sales user sets by hand in the runs
ManualStatuses == { "dismissed" }

MaxConfigVersions == 2

InitScoring ==
    /\ InitDedupIdle
    /\ InitJobsIdle
    /\ \E sc \in Scenarios :
          /\ companies = sc.companies
          /\ nextCompanyId = Len(sc.companies) + 1
          /\ vacancies = sc.vacancies
    /\ leads = <<>>
    /\ nextLeadId = 1
    /\ configs = <<>>
    /\ clock = 100
    /\ runs = <<>>
    /\ prompts = <<>>
    /\ ret = [ op |-> "none", ok |-> TRUE, company |-> 0, profile |-> 0, lead |-> 0,
               stats |-> ZeroStats ]

otherVars == <<companies, nextCompanyId, sessions, returned, firstRaw, runs, prompts,
               mergeTx, extraction, request, wire, orch>>

ScoreProfile ==
    /\ \E p \in Profiles : score_profile(p)
    /\ UNCHANGED otherVars

ScoreSingleCompany ==
    /\ \E i \in DOMAIN companies, p \in Profiles : score_single_company(companies[i].id, p)
    /\ UNCHANGED otherVars

UpdateLeadStatus ==
    /\ \E i \in DOMAIN leads, status \in ManualStatuses :
          update_lead_status(leads[i].id, status)
    /\ UNCHANGED otherVars

UpdateScoringConfig ==
    /\ Len(configs) < MaxConfigVersions
    /\ \E rq \in ConfigRequests : update_scoring_config(rq[1], rq[2])
    /\ UNCHANGED otherVars

NextScoring ==
    ScoreProfile \/ ScoreSingleCompany \/ UpdateLeadStatus \/ UpdateScoringConfig

SpecScoring == InitScoring /\ [][NextScoring]_vars

\* ------------------------------------------------------------------ claims on the scoring passes

\* the last finished operation was a scoring pass that ended without an exception
PassDone == ret.op \in { "score_profile", "score_single_company" } /\ ret.ok

HasActiveVacancy(company_id, profile_id) ==
    \E v \in vacancies : /\ v.company_id = company_id
                         /\ v.search_profile_id = profile_id
                         /\ v.status = "active"

\* the last pass called _score_company for this company
PassScored(company_id) ==
    \/ ret.op = "score_single_company" /\ ret.company = company_id
    \/ ret.op = "score_profile" /\ HasActiveVacancy(company_id, ret.profile)

\* the enabled exclusion policy of the profile's config finds the company's name
NameExcluded(company, profile_id) ==
    LET config == _get_scoring_config(profile_id)
    IN  /\ config.kind = "config"
        /\ _check_excluded_company_types(company, config.excluded_company_types).rule = "name"

SizeExcluded(company, profile_id) ==
    LET config == _get_scoring_config(profile_id)
    IN  /\ config.kind = "config"
        /\ _check_minimum_filters(company, config.minimum_filters).rule # "None"

TypeExcluded(company, profile_id) ==
    LET config == _get_scoring_config(profile_id)
    IN  /\ config.kind = "config"
        /\ _check_excluded_company_types(company, config.excluded_company_types).rule # "None"

\* the leads of a pair
LeadsOf(company_id, profile_id) ==
    { leads[i] : i \in LeadHits(leads, company_id, profile_id) }

ZeroedExcludedLead(l) ==
    /\ l.status = "excluded"
    /\ l.fit_score = 0 /\ l.timing_score = 0 /\ l.composite_score = 0
    /\ DOMAIN l.scoring_breakdown = { "excluded_reason" }

\* C1: after a scoring pass (score_profile or score_single_company) that finds
\* a company excluded by the enabled exclusion policy through a keyword in its
\* normalized name, the lead of (company, profile) has status "excluded", fit,
\* timing and composite score 0 and the breakdown {excluded_reason}, whatever
\* the lead was before the pass.
C1_ExcludedLeadIsZeroed ==
    PassDone =>
        \A i \in DOMAIN companies :
            (PassScored(companies[i].id) /\ NameExcluded(companies[i], ret.profile))
                => /\ LeadsOf(companies[i].id, ret.profile) # {}
                   /\ \A l \in LeadsOf(companies[i].id, ret.profile) : ZeroedExcludedLead(l)

\* a pass has just excluded by name a company whose lead it found already stored
\* (the lead is not the last one created, or the pass created none)
C1_ExcludedExistingLead ==
    /\ PassDone
    /\ ret.op = "score_single_company"
    /\ \E i \in DOMAIN companies :
          /\ companies[i].id = ret.company
          /\ NameExcluded(companies[i], ret.profile)
          /\ \E l \in LeadsOf(ret.company, ret.profile) :
                l.id = ret.lead /\ l.status = "excluded" /\ l.vacancy_count > 0

\* the lead the last pass wrote for a pair, when it wrote one
WrittenLeads(company_id, profile_id) ==
    IF ret.op = "score_single_company"
    THEN { l \in LeadsOf(company_id, profile_id) : l.id = ret.lead }
    ELSE LeadsOf(company_id, profile_id)

\* the reason of the exclusion a lead records, "None" when it records none
RecordedRule(l) ==
    IF "excluded_reason" \in DOMAIN l.scoring_breakdown
    THEN l.scoring_breakdown.excluded_reason.rule ELSE "None"

\* C5: with the employee-range (or revenue-range) minimum filter enabled, a
\* scoring pass marks the company excluded by that rule exactly when the
\* company's range is not null and stands strictly before the configured
\* minimum in the configured ladder; a null range, or one at or above the
\* minimum, is never excluded by the rule.
C5_MinimumFilterExactlyBelow ==
    PassDone =>
        \A i \in DOMAIN companies :
            LET company == companies[i]
                rows == { j \in DOMAIN configs :
                            configs[j].profile_id = ret.profile /\ configs[j].is_active }
                thresholds == IF rows = {} THEN EmptyDict
                              ELSE configs[CHOOSE j \in rows : TRUE].score_thresholds
                filters == Get(thresholds, "minimum_filters", EmptyDict)
                Enabled(f) == f \in DOMAIN filters /\ filters[f].enabled
                Before(f, range) ==
                    /\ range # NoRange
                    /\ \E a, b \in DOMAIN filters[f].range_order :
                          /\ filters[f].range_order[a] = range
                          /\ filters[f].range_order[b] = filters[f].min_range
                          /\ a < b
                marked(rule) == \E l \in WrittenLeads(company.id, ret.profile) :
                                    l.status = "excluded" /\ RecordedRule(l) = rule
            IN  (PassScored(company.id) /\ ~TypeExcluded(company, ret.profile))
                    => /\ Enabled("employee_count")
                            => (marked("too_small") <=> Before("employee_count", company.employee_range))
                       /\ (Enabled("revenue") /\ ~marked("too_small"))
                            => (marked("revenue_too_low") <=> Before("revenue", company.revenue_range))

\* a pass under enabled filters has met a company whose employee range is the
\* minimum itself, and excluded it for its revenue, not for its size
C5_AtMinimumKept ==
    /\ PassDone
    /\ \E i \in DOMAIN companies :
          /\ PassScored(companies[i].id)
          /\ companies[i].employee_range = "50-99"
          /\ SizeExcluded(companies[i], ret.profile)
          /\ \E l \in WrittenLeads(companies[i].id, ret.profile) :
                RecordedRule(l) = "revenue_too_low"

\* the weights and thresholds of the profile's active scoring_configs row,
\* the built-in ones when the profile has none
LoadedRow(profile_id) ==
    LET rows == { j \in DOMAIN configs :
                    configs[j].profile_id = profile_id /\ configs[j].is_active }
    IN  IF rows = {}
        THEN [ fit_weight |-> 60, timing_weight |-> 40,
               score_thresholds |-> [ hot |-> 75, warm |-> 50, monitor |-> 25 ] ]
        ELSE configs[CHOOSE j \in rows : TRUE]

\* the leads the last pass scored (wrote without excluding the company)
ScoredLeads ==
    { l \in UNION { WrittenLeads(companies[i].id, ret.profile) :
                      i \in { k \in DOMAIN companies : PassScored(companies[k].id) } } :
        "excluded_reason" \notin DOMAIN l.scoring_breakdown }

\* C6: every lead a scoring pass wrote that is neither excluded nor dismissed
\* has the status its stored composite_score (one decimal) gets from the loaded
\* thresholds: "hot" iff composite_score >= hot, "warm" iff warm <=
\* composite_score < hot, otherwise "monitor".
C6_StatusClassifiesStoredComposite ==
    PassDone =>
        \A l \in ScoredLeads :
            LET thresholds == LoadedRow(ret.profile).score_thresholds
            IN  l.status # "dismissed"
                  => l.status = IF l.composite_score >= 10 * thresholds.hot THEN "hot"
                                ELSE IF l.composite_score >= 10 * thresholds.warm THEN "warm"
                                ELSE "monitor"

\* a pass has stored a composite_score equal to a threshold
C6_CompositeOnThreshold ==
    /\ PassDone
    /\ \E l \in ScoredLeads :
          /\ l.status # "dismissed"
          /\ l.composite_score = 10 * LoadedRow(ret.profile).score_thresholds.warm

\* C7: every lead written by a scoring pass that does not exclude the company
\* has composite_score = round(fit_score * fit_weight + timing_score *
\* timing_weight, 1), with the fit_score and timing_score stored on the same
\* lead and the weights of the profile's active config row (0.6 and 0.4 when
\* the profile has no row).  Scores are in tenths and weights in hundredths:
\* the stored value is a nearest tenth of the weighted sum.
C7_CompositeIsRoundedWeightedSum ==
    PassDone =>
        \A l \in ScoredLeads :
            LET row == LoadedRow(ret.profile)
                sum == l.fit_score * row.fit_weight + l.timing_score * row.timing_weight
            IN  /\ 100 * l.composite_score - sum <= 50
                /\ sum - 100 * l.composite_score <= 50

\* a pass under stored weights other than the built-in ones has scored a lead
\* whose fit and timing scores differ and whose weighted sum had to be rounded
C7_RoundedUnderStoredWeights ==
    /\ PassDone
    /\ \E l \in ScoredLeads :
          LET row == LoadedRow(ret.profile)
              sum == l.fit_score * row.fit_weight + l.timing_score * row.timing_weight
          IN  /\ row.fit_weight = 70
              /\ l.fit_score # l.timing_score
              /\ l.timing_score > 0
              /\ sum # 100 * l.composite_score

\* the values a pass computes for a pair: the leads a pass would store for it
\* in an empty leads table
ComputedLeads(company_id, profile_id) ==
    { LeadById(o.leads, o.lead) :
        o \in { x \in _score_company(<<>>, 1, company_id, profile_id,
                                     _get_scoring_config(profile_id), clock) :
                  x.kind = "lead" } }

SameScoring(l, m) ==
    /\ l.fit_score = m.fit_score
    /\ l.timing_score = m.timing_score
    /\ l.composite_score = m.composite_score
    /\ l.scoring_breakdown = m.scoring_breakdown
    /\ l.vacancy_count = m.vacancy_count
    /\ l.oldest_vacancy_days = m.oldest_vacancy_days
    /\ l.platform_count = m.platform_count

\* C2: a scoring pass over a company that is not excluded and has an active
\* vacancy leaves a lead whose status is "dismissed" with the status
\* "dismissed", and with the fit, timing and composite score, the breakdown and
\* the vacancy statistics the pass computed.
C2_DismissedKeptScoresRefreshed ==
    [][ \A i \in DOMAIN leads :
          LET l == leads[i]
              company == companies[CHOOSE k \in DOMAIN companies :
                                      companies[k].id = l.company_id]
          IN  ( /\ l.status = "dismissed"
                /\ ret'.op \in { "score_profile", "score_single_company" }
                /\ ret'.ok
                /\ ret'.profile = l.search_profile_id
                /\ ret'.op = "score_single_company" => ret'.company = l.company_id
                /\ HasActiveVacancy(l.company_id, l.search_profile_id)
                /\ ~TypeExcluded(company, l.search_profile_id)
                /\ ~SizeExcluded(company, l.search_profile_id) )
              => /\ leads'[i].status = "dismissed"
                 /\ \E m \in ComputedLeads(l.company_id, l.search_profile_id) :
                        SameScoring(leads'[i], m)
      ]_vars

\* a pass has rescored a dismissed lead under a config other than the one its
\* scores were computed with before
C2_DismissedRescored ==
    /\ PassDone
    /\ ret.op = "score_single_company"
    /\ \E l \in ScoredLeads :
          /\ l.status = "dismissed"
          /\ l.id = ret.lead
          /\ l.scoring_breakdown.fit_weight = 70
          /\ Len(configs) = 2

\* C3: score_profile run twice with the companies, vacancies, config and clock
\* unchanged leaves one lead per (company, profile), and the second run leaves
\* the scores, status, breakdown, vacancy_count, oldest_vacancy_days and
\* platform_count of every lead as the first run wrote them, in whatever order
\* the store returns the active vacancies.
C3_SecondRunChangesNothing ==
    [][ ( /\ ret.op = "score_profile" /\ ret.ok
          /\ ret'.op = "score_profile" /\ ret'.ok
          /\ ret'.profile = ret.profile )
        => /\ \A i, j \in DOMAIN leads' :
                 ( /\ leads'[i].company_id = leads'[j].company_id
                   /\ leads'[i].search_profile_id = leads'[j].search_profile_id ) => i = j
           /\ DOMAIN leads' = DOMAIN leads
           /\ \A i \in DOMAIN leads :
                 /\ SameScoring(leads'[i], leads[i])
                 /\ leads'[i].status = leads[i].status
      ]_vars

\* score_profile has scored a company with two active vacancies
C3_ScoredTwoVacancies ==
    /\ PassDone
    /\ ret.op = "score_profile"
    /\ \E l \in ScoredLeads : l.vacancy_count = 2

\* C8: a scoring pass over a company that is not excluded and has no active
\* vacancy in the profile returns no lead and changes nothing: no lead is
\* created, a stored lead of the pair keeps every field, and score_profile does
\* not count the company.
C8_NothingToScoreChangesNothing ==
    [][ \A i \in DOMAIN companies, p \in Profiles :
          LET company == companies[i]
          IN  ( /\ ret'.op \in { "score_profile", "score_single_company" }
                /\ ret'.ok
                /\ ret'.profile = p
                /\ ret'.op = "score_single_company" => ret'.company = company.id
                /\ ~HasActiveVacancy(company.id, p)
                /\ ~TypeExcluded(company, p)
                /\ ~SizeExcluded(company, p) )
              => /\ { leads'[j] : j \in LeadHits(leads', company.id, p) }
                        = LeadsOf(company.id, p)
                 /\ ret'.op = "score_single_company" => (ret'.lead = 0 /\ leads' = leads)
                 /\ ret'.op = "score_profile" =>
                        ret'.stats.scored <=
                            Cardinality({ k \in DOMAIN companies :
                                            HasActiveVacancy(companies[k].id, p) })
      ]_vars

\* score_single_company has returned no lead for a company that is not
\* excluded, has no active vacancy and has a lead stored from an earlier pass
C8_UnscoredWithStoredLead ==
    /\ PassDone
    /\ ret.op = "score_single_company"
    /\ ret.lead = 0
    /\ \E i \in DOMAIN companies :
          /\ companies[i].id = ret.company
          /\ ~HasActiveVacancy(ret.company, ret.profile)
          /\ ~TypeExcluded(companies[i], ret.profile)
          /\ ~SizeExcluded(companies[i], ret.profile)
          /\ LeadsOf(ret.company, ret.profile) # {}

\* ------------------------------------------------------------------ extraction.py: the LLM pass

\* an enrichment_runs row as flushed when a pass starts
EnrichmentRun(id, profile_id, pass_type, now) ==
    [ id |-> id, profile_id |-> profile_id, pass_type |-> pass_type,
      status |-> "running", started_at |-> now, completed_at |-> NoDate,
      items_processed |-> 0, items_succeeded |-> 0, items_failed |-> 0,
      tokens_input |-> 0, tokens_output |-> 0 ]

\* one value of the sanitized dict: lists keep the str() of their non-null
\* elements, strings are stripped (the empty string becomes None), anything
\* else becomes None
SanitizeValue(value) ==
    CASE value.t = "list" ->
             ListVal(SelectSeq(value.v, LAMBDA e : e # None))
      [] value.t = "str" ->
             IF value.v = <<>> THEN NoneVal ELSE StrVal(Strip(value.v))
      [] OTHER -> NoneVal

\* _sanitize_extraction: one entry per field of the schema
_sanitize_extraction(extracted, schema) ==
    [ field_name \in Range(schema) |-> SanitizeValue(Get(extracted, field_name, NoneVal)) ]

\* what the pass returns to its caller, and the ids of the items it attempted
PassRet(op, ok, profile_id, run_id, attempted) ==
    [ op |-> op, ok |-> ok, profile |-> profile_id, run |-> run_id, attempted |-> attempted ]

\* Vacancy.extraction_status == "pending", raw_text neither NULL nor ""
PendingVacancies(profile_id) ==
    { v \in vacancies : /\ v.search_profile_id = profile_id
                        /\ v.extraction_status = "pending"
                        /\ v.raw_text # None
                        /\ v.raw_text # <<>> }

\* a failure result leaves the vacancy as it was
ExtractOneSkippingFailures(vacancy, reply, run_id, prompt) ==
    IF reply.kind = "raise"
    THEN [ vacancy EXCEPT !.extraction_status = "failed", !.extraction_run_id = run_id ]
    ELSE IF ~reply.success
    THEN vacancy
    ELSE [ vacancy EXCEPT
             !.extracted_data = _sanitize_extraction(reply.extracted_data,
                                                     prompt.extraction_schema),
             !.extraction_status = "completed",
             !.extraction_run_id = run_id ]

\* _extract_one: the vacancy after its extraction call answered with `reply`
_extract_one(vacancy, reply, run_id, prompt) ==
    IF reply.kind = "raise" \/ ~reply.success
    THEN [ vacancy EXCEPT !.extraction_status = "failed", !.extraction_run_id = run_id ]
    ELSE [ vacancy EXCEPT
             !.extracted_data = _sanitize_extraction(reply.extracted_data,
                                                     prompt.extraction_schema),
             !.extraction_status = "completed",
             !.extraction_run_id = run_id ]

\* run_llm_extraction, with the answers of the extraction calls of this pass
run_llm_extraction(profile_id, replies) ==
    LET active == { i \in DOMAIN prompts :
                      prompts[i].profile_id = profile_id /\ prompts[i].is_active }
        run_id == Len(runs) + 1
        run == EnrichmentRun(run_id, profile_id, "llm", clock)
        selected == PendingVacancies(profile_id)
    IN  IF Cardinality(active) # 1
        THEN /\ ret' = PassRet("run_llm_extraction", FALSE, profile_id, 0, {})
             /\ wire' = NoWire
             /\ UNCHANGED <<vacancies, runs>>
        ELSE IF selected = {}
        THEN /\ runs' = Append(runs, [ run EXCEPT !.status = "completed",
                                                  !.completed_at = clock ])
             /\ ret' = PassRet("run_llm_extraction", TRUE, profile_id, run_id, {})
             /\ wire' = NoWire
             /\ UNCHANGED vacancies
        ELSE \E reply \in [ { v.id : v \in selected } -> replies ] :
                LET prompt == prompts[CHOOSE i \in active : TRUE]
                    answered == { v \in selected : reply[v.id].kind # "raise" }
                    succeeded == { v \in answered : reply[v.id].success }
                    ids == { v.id : v \in succeeded }
                IN  /\ vacancies' = (vacancies \ selected) \cup
                            { _extract_one(v, reply[v.id], run_id, prompt) : v \in selected }
                    /\ runs' = Append(runs,
                            [ run EXCEPT
                                !.items_processed = Cardinality(answered),
                                !.items_succeeded = Cardinality(succeeded),
                                !.items_failed = Cardinality(selected \ succeeded),
                                !.tokens_input =
                                    SumOver([ i \in ids |-> reply[i].tokens_input ], ids),
                                !.tokens_output =
                                    SumOver([ i \in ids |-> reply[i].tokens_output ], ids),
                                !.status = "completed",
                                !.completed_at = clock ])
                    /\ ret' = PassRet("run_llm_extraction", TRUE, profile_id, run_id,
                                      { v.id : v \in selected })
                    /\ wire' = [ id \in { v.id : v \in selected } |->
                                   IF reply[id].kind = "raise" THEN "raise"
                                   ELSE IF reply[id].success THEN "success"
                                   ELSE "failure" ]

\* ------------------------------------------------------------------ integrations/kvk.py, integrations/apollo.py

\* what one attempt of a request meets: a response with its status (200 with
\* a JSON body, 404 and 500 for the 4xx and 5xx classes), no connection, no
\* answer in time, or any other error (a broken read, a body that is not JSON)
HttpAnswers == { "200", "404", "500", "connect_error", "timeout", "other_error" }

Transient == { "500", "connect_error", "timeout" }

\* _request_with_retry(max_retries=3): range(max_retries) attempts
kvk_max_retries == 3
\* ApolloClient._post(max_retries=3, backoff_base=1.0): range(max_retries + 1) attempts
apollo_max_retries == 3
backoff_base == 1

\* the number of the last attempt a client makes (attempts count from 0)
LastAttempt(client) ==
    IF client = "kvk" THEN kvk_max_retries - 1 ELSE apollo_max_retries

RECURSIVE Pow2(_)
Pow2(n) == IF n = 0 THEN 1 ELSE 2 * Pow2(n - 1)

\* wait_time = 2**attempt; wait = backoff_base * (2**attempt)
BackoffDelay(client, attempt) ==
    IF client = "kvk" THEN Pow2(attempt) ELSE backoff_base * Pow2(attempt)

\* every failed attempt is tried again while attempts are left
AfterAnswerRetryingAll(client, attempt, answer) ==
    IF answer = "200" THEN "return"
    ELSE IF attempt < LastAttempt(client) THEN "retry"
    ELSE "raise"

\* what the loop does once attempt number `attempt` got `answer`: it
\* returns the body, sleeps and tries again, or lets the error out
AfterAnswer(client, attempt, answer) ==
    IF answer = "200" THEN "return"
    ELSE IF answer \in Transient /\ attempt < LastAttempt(client) THEN "retry"
    ELSE "raise"

\* the request run to its end, the successive attempts meeting `answers`:
\* whether it returned, and the number of attempts made
RECURSIVE RequestLoop(_, _, _)
RequestLoop(client, answers, attempt) ==
    LET todo == AfterAnswer(client, attempt, answers[attempt + 1])
    IN  IF todo = "retry"
        THEN RequestLoop(client, answers, attempt + 1)
        ELSE [ returned |-> todo = "return", attempts |-> attempt + 1 ]

\* the answers the attempts made have met
AnswersSeen(client, exchange) ==
    SubSeq(exchange.answers, 1, RequestLoop(client, exchange.answers, 0).attempts)

\* what a client method hands to the enrichment pass
NoAnswer == [ kind |-> "none" ]
Raises == [ kind |-> "raise" ]

\* KvKClient.find_kvk_number over search_by_name: a failed request is logged
\* and answered with no results; results that are not objects raise at
\* results[0].get
find_kvk_number(exchange) ==
    IF ~RequestLoop("kvk", exchange.answers, 0).returned THEN NoAnswer
    ELSE IF exchange.body.kind = "malformed" THEN Raises
    ELSE IF exchange.body.kind = "empty" THEN NoAnswer
    ELSE exchange.body

\* KvKClient.get_company_profile: a failed request is logged and answered
\* with None; _parse_profile runs outside the try and raises on a body it
\* cannot iterate
get_company_profile(exchange) ==
    IF ~RequestLoop("kvk", exchange.answers, 0).returned THEN NoAnswer
    ELSE IF exchange.body.kind = "malformed" THEN Raises
    ELSE exchange.body

\* ApolloClient.enrich_company: a failed request is logged and answered with
\* None, so is a body without organization; the body is read outside the try
enrich_company(exchange) ==
    IF ~RequestLoop("apollo", exchange.answers, 0).returned THEN NoAnswer
    ELSE IF exchange.body.kind = "malformed" THEN Raises
    ELSE IF exchange.body.kind = "empty" THEN NoAnswer
    ELSE exchange.body

\* the three client calls of _enrich_company over the HTTP exchanges they run
ClientAnswers(exchanges) ==
    [ find |-> find_kvk_number(exchanges.find),
      profile |-> get_company_profile(exchanges.profile),
      apollo |-> enrich_company(exchanges.apollo) ]

\* ------------------------------------------------------------------ external_enrichment.py: the external pass

\* settings.enrichment_min_quality_threshold (0.3); extraction_quality is
\* stored rounded to four decimals, so qualities count in ten-thousandths
enrichment_min_quality_threshold == 3000

\* _employee_count_to_range
_employee_count_to_range(count) ==
    IF count < 10 THEN "1-9"
    ELSE IF count < 50 THEN "10-49"
    ELSE IF count < 100 THEN "50-99"
    ELSE IF count < 200 THEN "100-199"
    ELSE IF count < 500 THEN "200-499"
    ELSE IF count < 1000 THEN "500-999"
    ELSE "1000+"

\* a registry number or a range that Python takes as false: None or ""
Falsy(x) == x = "None" \/ x = ""

\* _enrich_company: the company object after the call, and whether the call
\* raised.  `reply` holds the answers of the three lookups: find (the registry
\* search), profile (the registry profile), apollo (the financial source).
\* Each answers with data, with nothing (kind "none": the clients turn their
\* request errors into None), or raises.  The attributes assigned before an
\* exception stay on the object.
_enrich_company(company, reply) ==
    LET needsNumber == Falsy(company.kvk_number)
        c1 == IF needsNumber /\ reply.find.kind = "data" /\ ~Falsy(reply.find.kvk_number)
              THEN [ company EXCEPT !.kvk_number = reply.find.kvk_number ]
              ELSE company
        hasNumber == ~Falsy(c1.kvk_number)
        kvk == reply.profile
        c2 == IF hasNumber /\ kvk.kind = "data"
              THEN [ c1 EXCEPT
                       !.sbi_codes = kvk.sbi_codes,
                       !.entity_count = kvk.entity_count,
                       !.kvk_data = [ t |-> "raw", v |-> kvk.raw_data ],
                       !.employee_range =
                           IF kvk.employee_count # NoInt /\ kvk.employee_count # 0
                              /\ Falsy(c1.employee_range)
                           THEN _employee_count_to_range(kvk.employee_count)
                           ELSE @ ]
              ELSE c1
        apollo == reply.apollo
        c3 == IF apollo.kind = "data"
              THEN [ c2 EXCEPT
                       !.employee_range =
                           IF Falsy(apollo.employee_range) THEN @ ELSE apollo.employee_range,
                       !.revenue_range =
                           IF Falsy(apollo.revenue_range) THEN @ ELSE apollo.revenue_range ]
              ELSE c2
        apollo_raw == IF apollo.kind = "data" THEN apollo.raw_data ELSE "{}"
        apollo_id == IF apollo.kind = "data" THEN apollo.apollo_id ELSE "None"
    IN  IF needsNumber /\ reply.find.kind = "raise"
        THEN [ raised |-> TRUE, company |-> company ]
        ELSE IF hasNumber /\ kvk.kind = "raise"
        THEN [ raised |-> TRUE, company |-> c1 ]
        ELSE IF apollo.kind = "raise"
        THEN [ raised |-> TRUE, company |-> c2 ]
        ELSE [ raised |-> FALSE,
               company |-> [ c3 EXCEPT
                   !.company_info_data = [ t |-> "raw", v |-> apollo_raw ],
                   !.enrichment_data = [ t |-> "dict", kvk_data |-> c3.kvk_data,
                                         apollo_data |-> apollo_raw,
                                         apollo_id |-> apollo_id ] ] ]

RowIndex(tbl, id) == CHOOSE i \in DOMAIN tbl : tbl[i].id = id

\* per lookup of _enrich_company for the company: the answers its attempts
\* met, the empty sequence for a lookup the method did not get to
LookupsMade(company, exchanges) ==
    LET reply == ClientAnswers(exchanges)
        asked == Falsy(company.kvk_number)
        hasNumber == \/ ~asked
                     \/ reply.find.kind = "data" /\ ~Falsy(reply.find.kvk_number)
        findRaised == asked /\ reply.find.kind = "raise"
        profileRaised == hasNumber /\ reply.profile.kind = "raise"
    IN  [ find |-> IF asked THEN AnswersSeen("kvk", exchanges.find) ELSE <<>>,
          profile |-> IF ~findRaised /\ hasNumber
                      THEN AnswersSeen("kvk", exchanges.profile) ELSE <<>>,
          apollo |-> IF ~findRaised /\ ~profileRaised
                     THEN AnswersSeen("apollo", exchanges.apollo) ELSE <<>> ]

\* the body of the loop of run_external_enrichment for one company
EnrichedRow(company, reply, run_id, now) ==
    LET outcome == _enrich_company(company, reply)
    IN  IF outcome.raised
        THEN [ outcome.company EXCEPT !.enrichment_status = "failed",
                                      !.enrichment_run_id = run_id ]
        ELSE [ outcome.company EXCEPT !.enrichment_status = "completed",
                                      !.enrichment_run_id = run_id,
                                      !.enriched_at = now ]

\* the selection leaves out the quality gate
QualifyingIgnoringQuality(profile_id) ==
    { i \in DOMAIN companies :
        /\ \E v \in vacancies : /\ v.company_id = companies[i].id
                                /\ v.search_profile_id = profile_id
        /\ companies[i].enrichment_status = "pending" }

\* the companies the pass selects: joined to a vacancy of the profile,
\* pending, extraction_quality >= threshold (NULL compares as unknown)
QualifyingCompanies(profile_id) ==
    { i \in DOMAIN companies :
        /\ \E v \in vacancies : /\ v.company_id = companies[i].id
                                /\ v.search_profile_id = profile_id
        /\ companies[i].enrichment_status = "pending"
        /\ companies[i].extraction_quality # NoInt
        /\ companies[i].extraction_quality >= enrichment_min_quality_threshold }

\* companies.kvk_number is unique: the constraint the commit enforces
KvkUnique(tbl) ==
    \A i, j \in DOMAIN tbl :
        (i # j /\ tbl[i].kvk_number # NoKvk) => tbl[i].kvk_number # tbl[j].kvk_number

\* run_external_enrichment, with the HTTP exchanges of the lookups of this
\* pass; a commit the unique constraint refuses raises and leaves nothing stored
run_external_enrichment(profile_id, replies) ==
    LET run_id == Len(runs) + 1
        run == EnrichmentRun(run_id, profile_id, "external", clock)
        selected == QualifyingCompanies(profile_id)
    IN  IF selected = {}
        THEN /\ runs' = Append(runs, [ run EXCEPT !.status = "completed",
                                                  !.completed_at = clock ])
             /\ ret' = PassRet("run_external_enrichment", TRUE, profile_id, run_id, {})
             /\ wire' = NoWire
             /\ UNCHANGED companies
        ELSE \E reply \in [ selected -> replies ] :
                LET after == [ i \in DOMAIN companies |->
                                 IF i \in selected
                                 THEN EnrichedRow(companies[i], ClientAnswers(reply[i]),
                                                  run_id, clock)
                                 ELSE companies[i] ]
                    failed == { i \in selected : after[i].enrichment_status = "failed" }
                IN  /\ wire' = [ id \in { companies[i].id : i \in selected } |->
                                   LookupsMade(companies[RowIndex(companies, id)],
                                               reply[RowIndex(companies, id)]) ]
                    /\ IF ~KvkUnique(after)
                       THEN /\ ret' = PassRet("run_external_enrichment", FALSE, profile_id,
                                              0, {})
                            /\ UNCHANGED <<companies, runs>>
                       ELSE /\ companies' = after
                            /\ runs' = Append(runs,
                                   [ run EXCEPT
                                       !.items_processed = Cardinality(selected),
                                       !.items_succeeded = Cardinality(selected \ failed),
                                       !.items_failed = Cardinality(failed),
                                       !.status = "completed",
                                       !.completed_at = clock ])
                            /\ ret' = PassRet("run_external_enrichment", TRUE, profile_id,
                                              run_id, { companies[i].id : i \in selected })

\* ------------------------------------------------------------------ the enrichment runs

\* a vacancy as the harvester stores it: extraction pending, nothing extracted
HarvestedVacancy(id, company_id, profile_id, raw_text) ==
    Vacancy(id, company_id, profile_id, "active", "google_jobs", Title_Clerk,
            95, 95, NoDate, NoneDict)
    @@ [ raw_text |-> raw_text, extraction_status |-> "pending",
         extraction_run_id |-> NoInt ]

\* a company with the columns the external pass writes
HarvestedCompany(id, raw, extraction_quality) ==
    [ NewCompany(id, raw, normalize_company_name(raw)) EXCEPT
        !.extraction_quality = extraction_quality ]
    @@ [ enrichment_run_id |-> NoInt, enriched_at |-> NoDate, kvk_data |-> NoneVal,
         company_info_data |-> NoneVal, enrichment_data |-> NoneVal ]

Text_Vacancy == <<"A","P"," ","c","l","e","r","k">>
Text_Padded == <<" ","n","o"," ","t","o","o","l"," ">>

ExtractionSchema == << "erp_systems", "automation_status", "team_size" >>

\* the answers of the extraction call: it raises, it returns a failure
\* result, or it returns extracted data
LlmReplies ==
    { [ kind |-> "raise", success |-> FALSE ],
      [ kind |-> "result", success |-> FALSE ],
      [ kind |-> "result", success |-> TRUE,
        extracted_data |-> [ erp_systems |-> ListVal(<< Text_SAP, None >>),
                             automation_status |-> StrVal(Text_Padded) ],
        tokens_input |-> 120, tokens_output |-> 30 ] }

KvkProfile ==
    [ kind |-> "data", sbi_codes |-> << [ form |-> "dict", code |-> <<"6","2","0","1">> ] >>,
      entity_count |-> 3, employee_count |-> 120, raw_data |-> "kvk_profile" ]
ApolloOrg ==
    [ kind |-> "data", employee_range |-> "200-499", revenue_range |-> "10M-50M",
      raw_data |-> "apollo_org", apollo_id |-> "a1" ]

Kvk_Acme == "12345678"
Kvk_Globex == "87654321"

\* an exchange answered at once with a body, and one that meets only errors
Answered(body) == [ answers |-> << "200" >>, body |-> body ]
Unanswered(answers) == [ answers |-> answers, body |-> [ kind |-> "none" ] ]
Malformed == [ kind |-> "malformed" ]

\* the HTTP exchanges of the three lookups for one company
EnrichReplies ==
    { [ find |-> Answered([ kind |-> "data", kvk_number |-> Kvk_Acme ]),
        profile |-> Answered(KvkProfile), apollo |-> Answered(ApolloOrg) ],
      [ find |-> Answered([ kind |-> "data", kvk_number |-> Kvk_Globex ]),
        profile |-> Unanswered(<< "500", "timeout", "500" >>),
        apollo |-> Unanswered(<< "404" >>) ],
      [ find |-> Unanswered(<< "404" >>), profile |-> Unanswered(<< "404" >>),
        apollo |-> Answered([ kind |-> "empty" ]) ],
      [ find |-> Answered(Malformed), profile |-> Unanswered(<< "404" >>),
        apollo |-> Unanswered(<< "404" >>) ],
      [ find |-> Answered([ kind |-> "data", kvk_number |-> Kvk_Acme ]),
        profile |-> Answered(KvkProfile), apollo |-> Answered(Malformed) ] }

MaxRuns == 3

InitPasses ==
    /\ InitDedupIdle
    /\ InitJobsIdle
    /\ \E quality \in { NoInt, 2000, 3000, 4000 } :
          companies = << HarvestedCompany(1, Name_AcmeBV, 5000),
                         HarvestedCompany(2, Name_GlobexNV, quality) >>
    /\ nextCompanyId = 3
    /\ vacancies = { HarvestedVacancy(1, 1, 1, Text_Vacancy),
                     HarvestedVacancy(2, 2, 1, Text_Vacancy),
                     HarvestedVacancy(3, 1, 1, None),
                     HarvestedVacancy(4, 2, 2, <<>>) }
    /\ leads = <<>>
    /\ nextLeadId = 1
    /\ configs = <<>>
    /\ clock = 100
    /\ runs = <<>>
    /\ prompts = << [ id |-> 1, profile_id |-> 1, version |-> 1, is_active |-> TRUE,
                      extraction_schema |-> ExtractionSchema ] >>
    /\ ret = PassRet("none", TRUE, 0, 0, {})

RunLlmExtraction ==
    /\ Len(runs) < MaxRuns
    /\ \E p \in Profiles : run_llm_extraction(p, LlmReplies)
    /\ UNCHANGED <<companies, nextCompanyId, sessions, returned, firstRaw,
                   leads, nextLeadId, configs, clock, prompts, mergeTx, extraction, request, orch>>

RunExternalEnrichment ==
    /\ Len(runs) < MaxRuns
    /\ \E p \in Profiles : run_external_enrichment(p, EnrichReplies)
    /\ UNCHANGED <<vacancies, nextCompanyId, sessions, returned, firstRaw,
                   leads, nextLeadId, configs, clock, prompts, mergeTx, extraction, request, orch>>

NextPasses == RunLlmExtraction \/ RunExternalEnrichment

SpecPasses == InitPasses /\ [][NextPasses]_vars

\* C4: a failed item is not terminal.  A vacancy whose extraction_status is
\* "failed" is selected and attempted by the next run_llm_extraction of its
\* profile, and a company whose enrichment_status is "failed" by the next
\* run_external_enrichment of a profile it has a vacancy in.
C4_FailedIsAttemptedAgain ==
    [][ /\ (ret'.op = "run_llm_extraction" /\ ret'.ok)
            => \A v \in vacancies :
                  (v.search_profile_id = ret'.profile /\ v.extraction_status = "failed")
                      => v.id \in ret'.attempted
        /\ (ret'.op = "run_external_enrichment" /\ ret'.ok)
            => \A i \in DOMAIN companies :
                  ( /\ companies[i].enrichment_status = "failed"
                    /\ \E v \in vacancies : /\ v.company_id = companies[i].id
                                            /\ v.search_profile_id = ret'.profile )
                      => companies[i].id \in ret'.attempted
      ]_vars

\* a pass has run while a vacancy of its profile stood failed from an earlier
\* pass of the same kind
C4_PassAfterFailure ==
    /\ ret.op = "run_llm_extraction"
    /\ ret.ok
    /\ \E v \in vacancies :
          /\ v.search_profile_id = ret.profile
          /\ v.extraction_status = "failed"
          /\ v.extraction_run_id # NoInt
          /\ v.extraction_run_id < ret.run

\* ------------------------------------------------------------------ dedup.py: merge_companies_by_kvk

fields_to_merge ==
    << "sbi_codes", "employee_range", "revenue_range", "entity_count",
       "enrichment_data", "kvk_data", "company_info_data" >>

\* NULL of a companies column
NullOf(field_name) ==
    CASE field_name = "sbi_codes" -> NoCodes
      [] field_name \in { "employee_range", "revenue_range" } -> NoRange
      [] field_name \in { "entity_count", "extraction_quality", "enrichment_run_id" } -> NoInt
      [] field_name = "enriched_at" -> NoDate
      [] field_name = "kvk_number" -> NoKvk
      [] OTHER -> NoneVal

\* the duplicate's value replaces the survivor's whenever the duplicate has one
MergeFieldOverwritten(field_name, survivor_val, duplicate_val) ==
    IF duplicate_val # NullOf(field_name) THEN duplicate_val ELSE survivor_val

\* if survivor_val is None and duplicate_val is not None: setattr(...)
MergeField(field_name, survivor_val, duplicate_val) ==
    IF survivor_val = NullOf(field_name) /\ duplicate_val # NullOf(field_name)
    THEN duplicate_val
    ELSE survivor_val

_merge_company_data(survivor, duplicate) ==
    [ f \in DOMAIN survivor |->
        IF f \in Range(fields_to_merge)
        THEN MergeField(f, survivor[f], duplicate[f])
        ELSE survivor[f] ]

\* select(Company.kvk_number) ... group_by ... having count(Company.id) > 1
DuplicateKvkNumbers(tbl) ==
    { tbl[i].kvk_number : i \in { j \in DOMAIN tbl :
        /\ tbl[j].kvk_number # NoKvk
        /\ \E k \in DOMAIN tbl : k # j /\ tbl[k].kvk_number = tbl[j].kvk_number } }

\* select(Company).where(kvk_number == ...).order_by(Company.created_at): the
\* ids of the group in every order the database may return them (rows with
\* equal created_at come in any order)
GroupOrders(tbl, kvk_number) ==
    LET ids == { tbl[i].id : i \in { j \in DOMAIN tbl : tbl[j].kvk_number = kvk_number } }
    IN  { o \in ListOfSet(ids) :
            \A a, b \in DOMAIN o :
                a < b => tbl[RowIndex(tbl, o[a])].created_at
                            <= tbl[RowIndex(tbl, o[b])].created_at }

\* what the merge job leaves alone
mergeFrame == <<nextCompanyId, sessions, returned, firstRaw, leads, nextLeadId,
                configs, clock, runs, prompts, extraction, request, wire, orch>>

\* what the job returns (merge_count), or the statement at which it raised
MergeResult(ok, count, at) ==
    [ op |-> "merge_companies_by_kvk", ok |-> ok, count |-> count, at |-> at ]

\* lines 72-80: the duplicate registry numbers are read, merge_count = 0; the
\* session works on its own view of the rows until it commits
MergeBegin ==
    /\ mergeTx.pc = "idle"
    /\ mergeTx' = [ pc |-> "next_group",
                    todo |-> DuplicateKvkNumbers(companies),
                    survivor |-> 0, duplicates |-> <<>>,
                    companies |-> companies, vacancies |-> vacancies,
                    merge_count |-> 0 ]
    /\ UNCHANGED <<companies, vacancies, ret>>
    /\ UNCHANGED mergeFrame

\* lines 81-93: the next registry number, its rows by created_at, the survivor
MergeNextGroup ==
    /\ mergeTx.pc = "next_group"
    /\ \E kvk_number \in mergeTx.todo :
          \E order \in GroupOrders(mergeTx.companies, kvk_number) :
              mergeTx' = [ mergeTx EXCEPT
                  !.todo = @ \ { kvk_number },
                  !.pc = IF Len(order) < 2 THEN "next_group" ELSE "merge",
                  !.survivor = IF Len(order) < 2 THEN 0 ELSE Head(order),
                  !.duplicates = IF Len(order) < 2 THEN <<>> ELSE Tail(order) ]
    /\ UNCHANGED <<companies, vacancies, ret>>
    /\ UNCHANGED mergeFrame

\* line 97: _merge_company_data(survivor, duplicate)
MergeData ==
    /\ mergeTx.pc = "merge"
    /\ LET tbl == mergeTx.companies
           s == RowIndex(tbl, mergeTx.survivor)
           d == RowIndex(tbl, Head(mergeTx.duplicates))
       IN  mergeTx' = [ mergeTx EXCEPT
               !.pc = "reassign",
               !.companies = [ tbl EXCEPT ![s] = _merge_company_data(tbl[s], tbl[d]) ] ]
    /\ UNCHANGED <<companies, vacancies, ret>>
    /\ UNCHANGED mergeFrame

\* lines 100-105: the duplicate's vacancies point at the survivor
MergeReassign ==
    /\ mergeTx.pc = "reassign"
    /\ mergeTx' = [ mergeTx EXCEPT
           !.pc = "delete",
           !.vacancies = { IF v.company_id = Head(mergeTx.duplicates)
                           THEN [ v EXCEPT !.company_id = mergeTx.survivor ]
                           ELSE v : v \in @ } ]
    /\ UNCHANGED <<companies, vacancies, ret>>
    /\ UNCHANGED mergeFrame

\* lines 108-109: db.delete(duplicate); merge_count += 1.  A vacancy still
\* pointing at the deleted row gets company_id NULL (ondelete SET NULL).
MergeDelete ==
    /\ mergeTx.pc = "delete"
    /\ LET gone == Head(mergeTx.duplicates)
       IN  mergeTx' = [ mergeTx EXCEPT
               !.pc = IF Tail(mergeTx.duplicates) = <<>> THEN "next_group" ELSE "merge",
               !.duplicates = Tail(@),
               !.companies = SelectSeq(@, LAMBDA row : row.id # gone),
               !.vacancies = { IF v.company_id = gone
                               THEN [ v EXCEPT !.company_id = NoInt ]
                               ELSE v : v \in @ },
               !.merge_count = @ + 1 ]
    /\ UNCHANGED <<companies, vacancies, ret>>
    /\ UNCHANGED mergeFrame

\* lines 111-113: db.commit(); return merge_count
MergeCommit ==
    /\ mergeTx.pc = "next_group"
    /\ mergeTx.todo = {}
    /\ companies' = mergeTx.companies
    /\ vacancies' = mergeTx.vacancies
    /\ ret' = MergeResult(TRUE, mergeTx.merge_count, "return")
    /\ mergeTx' = IdleTx
    /\ UNCHANGED mergeFrame

\* the rows the session has flushed so far stay in the database when a
\* statement raises
MergeRaiseKeepsFlushed ==
    /\ mergeTx.pc # "idle"
    /\ companies' = mergeTx.companies
    /\ vacancies' = mergeTx.vacancies
    /\ ret' = MergeResult(FALSE, 0, mergeTx.pc)
    /\ mergeTx' = IdleTx
    /\ UNCHANGED mergeFrame

\* a statement of the job raises (the database refuses it, the connection
\* drops): the exception leaves merge_companies_by_kvk, which has committed
\* nothing, and the session is rolled back when it is closed
MergeRaise ==
    /\ mergeTx.pc # "idle"
    /\ mergeTx' = IdleTx
    /\ ret' = MergeResult(FALSE, 0, mergeTx.pc)
    /\ UNCHANGED <<companies, vacancies>>
    /\ UNCHANGED mergeFrame

\* ------------------------------------------------------------------ the merge runs

\* a companies row of the table the merge job is written for: rows that got
\* their registry number before the unique index on kvk_number was in place
\* (tests/test_company_merge.py drops the index to store them)
LegacyCompany(id, raw, kvk_number, created_at, employee_range, revenue_range) ==
    [ HarvestedCompany(id, raw, 5000) EXCEPT
        !.kvk_number = kvk_number,
        !.employee_range = employee_range,
        !.revenue_range = revenue_range ]
    @@ [ created_at |-> created_at ]

CreatedAts == { 1, 2 }

InitMerge ==
    /\ InitDedupIdle
    /\ InitJobsIdle
    /\ \E created \in [ 1..3 -> CreatedAts ],
          kvk2 \in { Kvk_Acme, Kvk_Globex },
          kvk3 \in { Kvk_Acme, Kvk_Globex, NoKvk },
          kvk4 \in { Kvk_Globex, NoKvk },
          emp \in [ 1..3 -> BOOLEAN ],
          rev \in [ 2..3 -> BOOLEAN ] :
          companies =
            << [ LegacyCompany(1, Name_AcmeBV, Kvk_Acme, created[1],
                               IF emp[1] THEN "10-49" ELSE NoRange, NoRange)
                 EXCEPT !.kvk_data = [ t |-> "raw", v |-> "kvk_profile" ] ],
               [ LegacyCompany(2, Name_AcmeBV_dots, kvk2, created[2],
                               IF emp[2] THEN "50-99" ELSE NoRange,
                               IF rev[2] THEN "1M-10M" ELSE NoRange)
                 EXCEPT !.entity_count = 3, !.enriched_at = 90, !.enrichment_run_id = 1,
                        !.enrichment_status = "completed" ],
               [ LegacyCompany(3, Name_GlobexNV, kvk3, created[3],
                               IF emp[3] THEN "100-199" ELSE NoRange,
                               IF rev[3] THEN "10M-50M" ELSE NoRange)
                 EXCEPT !.entity_count = 7,
                        !.sbi_codes = << Code_6201 >> ],
               LegacyCompany(4, Name_FooAndBar, kvk4, 3, NoRange, NoRange) >>
    /\ nextCompanyId = 5
    /\ vacancies = { HarvestedVacancy(1, 1, 1, Text_Vacancy),
                     HarvestedVacancy(2, 2, 1, Text_Vacancy),
                     HarvestedVacancy(3, 3, 1, Text_Vacancy),
                     HarvestedVacancy(4, 3, 2, Text_Vacancy),
                     HarvestedVacancy(5, 4, 1, Text_Vacancy),
                     HarvestedVacancy(6, NoInt, 1, Text_Vacancy) }
    /\ leads = <<>>
    /\ nextLeadId = 1
    /\ configs = <<>>
    /\ clock = 100
    /\ runs = <<>>
    /\ prompts = <<>>
    /\ ret = [ MergeResult(TRUE, 0, "none") EXCEPT !.op = "none" ]


NextMerge ==
    \/ MergeBegin \/ MergeNextGroup \/ MergeData \/ MergeReassign
    \/ MergeDelete \/ MergeCommit \/ MergeRaise

SpecMerge == InitMerge /\ [][NextMerge]_vars

\* ------------------------------------------------------------------ claims on the merge job

\* the nullable columns of models/company.py that describe the company (the
\* bookkeeping of the enrichment pass, enriched_at, enrichment_run_id and
\* extraction_quality, goes with enrichment_status and is not data to merge)
DescriptiveColumns ==
    { "sbi_codes", "employee_range", "revenue_range", "entity_count",
      "enrichment_data", "kvk_data", "company_info_data" }

RowsWithKvk(tbl, kvk_number) ==
    { tbl[i] : i \in { j \in DOMAIN tbl : tbl[j].kvk_number = kvk_number } }

KvkNumbers(tbl) == { tbl[i].kvk_number : i \in DOMAIN tbl } \ { NoKvk }

\* the step on which the job commits and returns
MergeReturns == mergeTx.pc # "idle" /\ mergeTx'.pc = "idle" /\ ret'.ok

\* row `after` is row `before` with every NULL descriptive column filled from
\* the earliest-created of `others` that has the column, and nothing else changed
FilledFrom(before, after, others) ==
    \A f \in DescriptiveColumns :
        IF before[f] # NullOf(f)
        THEN after[f] = before[f]
        ELSE LET donors == { d \in others : d[f] # NullOf(f) }
             IN  IF donors = {}
                 THEN after[f] = NullOf(f)
                 ELSE \E d \in donors :
                        /\ \A e \in donors : d.created_at <= e.created_at
                        /\ after[f] = d[f]

\* the group of registry number k is merged by the step: one row is left, the
\* earliest-created, filled from the others, and the vacancies of the whole
\* group point at it
GroupMergedByStep(k) ==
    LET group == RowsWithKvk(companies, k)
        left == RowsWithKvk(companies', k)
    IN  /\ Cardinality(left) = 1
        /\ \E before \in group :
              LET after == CHOOSE row \in left : TRUE
              IN  /\ after.id = before.id
                  /\ \A g \in group : before.created_at <= g.created_at
                  /\ FilledFrom(before, after, group \ { before })
                  /\ \A v \in vacancies :
                        v.company_id \in { g.id : g \in group }
                            => \E w \in vacancies' : w.id = v.id /\ w.company_id = after.id

GroupUntouchedByStep(k) ==
    LET group == RowsWithKvk(companies, k)
    IN  /\ RowsWithKvk(companies', k) = group
        /\ \A v \in vacancies :
              v.company_id \in { g.id : g \in group } => v \in vacancies'

\* every vacancy of the committed table references a committed company or none
NoVacancyOrphaned ==
    \A v \in vacancies :
        v.company_id # NoInt => \E i \in DOMAIN companies : companies[i].id = v.company_id

\* C12: whatever step merge_companies_by_kvk fails at, the committed state
\* holds no partially merged group: every step of the job, the failing one
\* included, leaves each duplicate group either entirely untouched or fully
\* merged (columns filled, vacancies re-pointed, losers deleted), and no
\* committed vacancy references a deleted company.
C12_NoGroupHalfMerged ==
    [][ /\ \A k \in KvkNumbers(companies) :
              GroupUntouchedByStep(k) \/ GroupMergedByStep(k)
        /\ NoVacancyOrphaned'
      ]_vars

\* the job raised after it had filled the survivor and re-pointed or deleted
\* within a group, and the committed table still holds a duplicate group
C12_RaisedInsideGroup ==
    /\ ret.op = "merge_companies_by_kvk"
    /\ ~ret.ok
    /\ ret.at \in { "reassign", "delete" }
    /\ DuplicateKvkNumbers(companies) # {}

\* ------------------------------------------------------------------ api/enrichment.py: create_extraction_prompt

\* the active prompt stays active when a new version is stored
KeepPromptActive(tbl, hits) == tbl

\* if current_active: current_active.is_active = False
DeactivatePrompt(tbl, hits) ==
    [ i \in DOMAIN tbl |-> IF i \in hits THEN [ tbl[i] EXCEPT !.is_active = FALSE ]
                           ELSE tbl[i] ]

\* create_extraction_prompt: scalar_one_or_none on the active rows raises
\* when there are several
create_extraction_prompt(profile_id, payload) ==
    LET versions == { prompts[i].version : i \in
                        { j \in DOMAIN prompts : prompts[j].profile_id = profile_id } }
        max_version == IF versions = {} THEN 0 ELSE Max(versions)
        hits == { i \in DOMAIN prompts :
                    prompts[i].profile_id = profile_id /\ prompts[i].is_active }
    IN  IF Cardinality(hits) > 1
        THEN /\ ret' = Ret("create_extraction_prompt", FALSE, 0, profile_id, 0, ZeroStats)
             /\ UNCHANGED prompts
        ELSE /\ prompts' = Append(DeactivatePrompt(prompts, hits),
                              [ id |-> Len(prompts) + 1,
                                profile_id |-> profile_id,
                                version |-> max_version + 1,
                                system_prompt |-> payload.system_prompt,
                                extraction_schema |-> payload.extraction_schema,
                                is_active |-> TRUE,
                                notes |-> payload.notes ])
             /\ ret' = Ret("create_extraction_prompt", TRUE, 0, profile_id, 0, ZeroStats)

\* ------------------------------------------------------------------ the configuration runs

\* request bodies of update_scoring_config: both weights, one of them, none
Payload_FitOnly == [ fit_weight |-> 90 ]
Payload_TimingOnly == [ timing_weight |-> 10 ]
Payload_Thresholds == [ score_thresholds |-> [ hot |-> 60, warm |-> 40, monitor |-> 20 ] ]
WeightRequests ==
    { Payload_Retuned, Payload_BadWeights, Payload_FitOnly, Payload_TimingOnly,
      Payload_Thresholds }

\* request bodies of create_extraction_prompt
PromptRequests ==
    { [ system_prompt |-> "extract", extraction_schema |-> ExtractionSchema,
        notes |-> "None" ],
      [ system_prompt |-> "extract v2", extraction_schema |-> << "erp_systems" >>,
        notes |-> "shorter" ] }

MaxVersions == 3

InitVersions ==
    /\ InitDedup
    /\ InitScoreIdle
    /\ InitJobsIdle
    /\ ret = [ op |-> "none", ok |-> TRUE, company |-> 0, profile |-> 0, lead |-> 0,
               stats |-> ZeroStats ]

PutScoringConfig ==
    /\ Len(configs) < MaxVersions
    /\ \E p \in Profiles, payload \in WeightRequests : update_scoring_config(p, payload)
    /\ UNCHANGED otherVars

CreateExtractionPrompt ==
    /\ Len(prompts) < MaxVersions
    /\ \E p \in Profiles, payload \in PromptRequests : create_extraction_prompt(p, payload)
    /\ UNCHANGED <<dedupVars, scoreVars, runs, jobVars>>

NextVersions == PutScoringConfig \/ CreateExtractionPrompt

SpecVersions == InitVersions /\ [][NextVersions]_vars

\* ------------------------------------------------------------------ claims on versioned configuration

RowsOfProfile(tbl, p) == { i \in DOMAIN tbl : tbl[i].profile_id = p }

\* among the rows of profile p exactly one is active, the one with the
\* highest version
OneActiveHighest(tbl, p) ==
    LET rows == RowsOfProfile(tbl, p)
        active == { i \in rows : tbl[i].is_active }
    IN  rows # {} =>
          /\ Cardinality(active) = 1
          /\ \A i \in active : \A j \in rows : tbl[j].version <= tbl[i].version

\* table `after` is table `before` with one new row for profile p whose
\* version is one more than the highest of the profile, the earlier rows
\* unchanged apart from is_active becoming false
VersionAppended(before, after, p) ==
    LET rows == RowsOfProfile(before, p)
        versions == { before[i].version : i \in rows }
    IN  /\ Len(after) = Len(before) + 1
        /\ after[Len(after)].profile_id = p
        /\ after[Len(after)].version = (IF versions = {} THEN 0 ELSE Max(versions)) + 1
        /\ \A i \in DOMAIN before :
              \/ after[i] = before[i]
              \/ /\ before[i].is_active
                 /\ after[i] = [ before[i] EXCEPT !.is_active = FALSE ]

\* C13: after any sequence of update_scoring_config and
\* create_extraction_prompt calls, each profile that has rows of a kind has
\* exactly one active row of that kind, the one with the highest version;
\* each call that stores a row gives it version max(existing versions) + 1
\* and leaves the earlier rows unchanged apart from is_active becoming false.
C13_OneActiveHighestVersion ==
    [][ /\ \A p \in Profiles : OneActiveHighest(configs', p) /\ OneActiveHighest(prompts', p)
        /\ configs' # configs => VersionAppended(configs, configs', ret'.profile)
        /\ prompts' # prompts => VersionAppended(prompts, prompts', ret'.profile)
      ]_vars

\* profile 1 has three versions of one kind, the first two inactive, and two
\* prompt versions exist beside a scoring configuration
C13_ThirdVersionActive ==
    /\ \E i \in DOMAIN prompts :
          prompts[i].profile_id = 1 /\ prompts[i].version = 3 /\ prompts[i].is_active
    /\ \E i \in DOMAIN prompts :
          prompts[i].profile_id = 1 /\ prompts[i].version = 2 /\ ~prompts[i].is_active
    /\ \E i \in DOMAIN configs :
          configs[i].profile_id = 1 /\ configs[i].version = 2 /\ configs[i].is_active

\* C14: every scoring configuration version stored by update_scoring_config
\* has |fit_weight + timing_weight - 1.0| <= 0.01, whichever of the two
\* weights the update supplies (the other one inherited from the prior
\* active version or the defaults 0.6 / 0.4).
C14_StoredWeightsSumToOne ==
    \A i \in DOMAIN configs :
        LET total == configs[i].fit_weight + configs[i].timing_weight
        IN  total - 100 <= 1 /\ 100 - total <= 1

\* an update supplying only fit_weight was accepted and stored
C14_SingleWeightStored ==
    /\ ret.op = "update_scoring_config"
    /\ ret.ok
    /\ \E i \in DOMAIN configs :
          /\ configs[i].fit_weight = Payload_FitOnly.fit_weight
          /\ configs[i].is_active

\* ------------------------------------------------------------------ claims on the enrichment passes

\* the vacancies an LLM pass for the profile is to select
SelectedForExtraction(profile_id) ==
    { v \in vacancies : /\ v.search_profile_id = profile_id
                        /\ v.extraction_status = "pending"
                        /\ v.raw_text # None
                        /\ v.raw_text # <<>> }

OneActivePrompt(profile_id) ==
    Cardinality({ i \in DOMAIN prompts :
                    prompts[i].profile_id = profile_id /\ prompts[i].is_active }) = 1

\* C15: run_llm_extraction isolates the failure of one vacancy.  Whatever
\* the extraction calls of a pass answer (data, a failure result, an
\* exception), every selected vacancy is attempted and ends "completed" when
\* its own call succeeded and "failed" when its own call raised or returned a
\* failure result, and the run ends "completed" without raising.
C15_FailuresIsolatedPerVacancy ==
    [][ (ret'.op = "run_llm_extraction" /\ OneActivePrompt(ret'.profile)) =>
          /\ ret'.ok
          /\ runs'[ret'.run].status = "completed"
          /\ \A v \in SelectedForExtraction(ret'.profile) :
                /\ v.id \in DOMAIN wire'
                /\ \E w \in vacancies' :
                      /\ w.id = v.id
                      /\ w.extraction_status =
                            IF wire'[v.id] = "success" THEN "completed" ELSE "failed"
      ]_vars

\* a pass in which the call of one vacancy raised, the call of another
\* returned data, and the second vacancy is completed
C15_OneRaisedOtherCompleted ==
    /\ ret.op = "run_llm_extraction"
    /\ ret.ok
    /\ \E a, b \in DOMAIN wire :
          /\ wire[a] = "raise"
          /\ wire[b] = "success"
          /\ \E w \in vacancies :
                w.id = b /\ w.extraction_status = "completed" /\ w.extraction_run_id = ret.run

\* the company may be touched by an external pass for the profile: it has a
\* vacancy in the profile, is pending, and its quality is known and at least
\* the configured threshold
MayBeEnriched(company, profile_id) ==
    /\ \E v \in vacancies : v.company_id = company.id /\ v.search_profile_id = profile_id
    /\ company.enrichment_status = "pending"
    /\ company.extraction_quality # NoInt
    /\ company.extraction_quality >= enrichment_min_quality_threshold

\* C16: run_external_enrichment modifies only companies that at selection
\* time have a vacancy in the profile, enrichment_status "pending" and a
\* non-null extraction_quality at or above the threshold; every other
\* company keeps all its columns; with no such company the run is
\* "completed" with items_processed = 0.
C16_OnlyQualifyingCompaniesTouched ==
    [][ ret'.op = "run_external_enrichment" =>
          /\ Len(companies') = Len(companies)
          /\ \A i \in DOMAIN companies :
                ~MayBeEnriched(companies[i], ret'.profile) => companies'[i] = companies[i]
          /\ (\A i \in DOMAIN companies : ~MayBeEnriched(companies[i], ret'.profile))
                => /\ ret'.ok
                   /\ runs'[ret'.run].status = "completed"
                   /\ runs'[ret'.run].items_processed = 0
      ]_vars

\* an external pass enriched one company of the profile and passed over
\* another one of the same profile whose quality is unknown or below the
\* threshold
C16_LowQualityPassedOver ==
    /\ ret.op = "run_external_enrichment"
    /\ ret.ok
    /\ \E i, j \in DOMAIN companies :
          /\ companies[i].enrichment_status = "completed"
          /\ companies[i].enrichment_run_id = ret.run
          /\ companies[j].enrichment_status = "pending"
          /\ companies[j].extraction_quality < enrichment_min_quality_threshold
          /\ \E v \in vacancies :
                v.company_id = companies[j].id /\ v.search_profile_id = ret.profile

LookupNames == { "find", "profile", "apollo" }

\* one of the company's lookups was answered with a 4xx status
Met4xx(lookups) == \E l \in LookupNames : "404" \in Range(lookups[l])

\* no lookup went on after a 4xx answer
NotRetriedAfter4xx(lookups) ==
    \A l \in LookupNames : \A k \in DOMAIN lookups[l] :
        lookups[l][k] = "404" => k = Len(lookups[l])

\* C17: when the registry or the financial source answers a company's lookup
\* with a 4xx status during the external pass, the request is not retried,
\* the company ends with enrichment_status "failed" and is counted in the
\* run's items_failed, and the pass goes on with the other companies.
C17_ClientErrorFailsTheCompany ==
    [][ (ret'.op = "run_external_enrichment" /\ ret'.ok) =>
          LET hit == { id \in DOMAIN wire' : Met4xx(wire'[id]) }
          IN  /\ DOMAIN wire' = ret'.attempted
              /\ \A id \in hit :
                    /\ NotRetriedAfter4xx(wire'[id])
                    /\ companies'[RowIndex(companies', id)].enrichment_status = "failed"
              /\ hit # {} => runs'[ret'.run].items_failed >= Cardinality(hit)
      ]_vars

\* an external pass ran to its end in which the financial source answered a
\* company's lookup with 404 on the first attempt
C17_LookupAnswered404 ==
    /\ ret.op = "run_external_enrichment"
    /\ ret.ok
    /\ \E id \in DOMAIN wire : wire[id].apollo = << "404" >>

\* C19: run_external_enrichment never raises because some companies fail.
\* For every batch of qualifying companies, also when the registry number
\* resolved for one company is already held by another company or when a
\* company's lookups raise, it returns a run with status "completed" and the
\* outcome of every company of the batch is committed.
C19_PassNeverRaises ==
    [][ ret'.op = "run_external_enrichment" =>
          /\ ret'.ok
          /\ runs'[ret'.run].status = "completed"
          /\ \A i \in DOMAIN companies :
                MayBeEnriched(companies[i], ret'.profile)
                    => /\ companies'[i].enrichment_status \in { "completed", "failed" }
                       /\ companies'[i].enrichment_run_id = ret'.run
      ]_vars

\* a pass resolved a registry number for a company of its batch while a
\* committed row of another company holds a registry number, and the pass
\* did not return
C19_NumberHeldByAnother ==
    /\ ret.op = "run_external_enrichment"
    /\ ~ret.ok
    /\ \E id \in DOMAIN wire, i \in DOMAIN companies :
          /\ wire[id].find = << "200" >>
          /\ companies[i].id # id
          /\ companies[i].kvk_number = Kvk_Acme

\* ------------------------------------------------------------------ integrations: one HTTP request, step by step

Clients == { "kvk", "apollo" }

\* _request_with_retry / ApolloClient._post is entered: attempt 0 is sent
SendRequest ==
    /\ request.pc = "idle"
    /\ \E client \in Clients :
         request' = [ pc |-> "sending", client |-> client, attempt |-> 0,
                      seen |-> << >>, slept |-> << >>, error |-> "none" ]
    /\ UNCHANGED <<dedupVars, scoreVars, passVars, mergeTx, extraction, wire, orch, ret>>

\* the attempt in flight is answered (httpx gives up after its timeout, so an
\* answer always comes): the loop returns, raises, or goes to sleep
Respond ==
    /\ request.pc = "sending"
    /\ \E answer \in HttpAnswers :
         LET todo == AfterAnswer(request.client, request.attempt, answer)
             seen == Append(request.seen, answer)
         IN  request' =
               IF todo = "return"
               THEN [ request EXCEPT !.pc = "returned", !.seen = seen ]
               ELSE IF todo = "raise"
               THEN [ request EXCEPT !.pc = "raised", !.seen = seen, !.error = answer ]
               ELSE [ request EXCEPT
                        !.pc = "sleeping", !.seen = seen,
                        !.slept = Append(request.slept,
                                         BackoffDelay(request.client, request.attempt)) ]
    /\ UNCHANGED <<dedupVars, scoreVars, passVars, mergeTx, extraction, wire, orch, ret>>

\* asyncio.sleep is over: the next attempt is sent
WakeUp ==
    /\ request.pc = "sleeping"
    /\ request' = [ request EXCEPT !.pc = "sending", !.attempt = request.attempt + 1 ]
    /\ UNCHANGED <<dedupVars, scoreVars, passVars, mergeTx, extraction, wire, orch, ret>>

\* the caller has the body or the error
FinishRequest ==
    /\ request.pc \in { "returned", "raised" }
    /\ ret' = [ op |-> IF request.client = "kvk" THEN "_request_with_retry" ELSE "_post",
                ok |-> request.pc = "returned",
                attempts |-> Len(request.seen) ]
    /\ request' = IdleRequest
    /\ UNCHANGED <<dedupVars, scoreVars, passVars, mergeTx, extraction, wire, orch>>

InitHttp == InitDedup /\ InitScoreIdle /\ InitJobsIdle /\ ret = NoOp

NextHttp == SendRequest \/ Respond \/ WakeUp \/ FinishRequest

SpecHttp == InitHttp /\ [][NextHttp]_vars

\* an attempt is answered within the client's timeout and a sleep ends
FairSpecHttp == SpecHttp /\ WF_vars(Respond) /\ WF_vars(WakeUp)

\* ---- claims on the HTTP requests ----

RequestOver == request.pc \in { "returned", "raised" }

\* the answers after which the request went on to another attempt
RetriedAnswers ==
    IF RequestOver THEN SubSeq(request.seen, 1, Len(request.seen) - 1)
    ELSE request.seen

\* the waits are 1, 2, 4: the first is 1 and each next one twice the last
DelaysDouble(slept) ==
    /\ Len(slept) > 0 => slept[1] = 1
    /\ \A k \in 1..(Len(slept) - 1) : slept[k + 1] = 2 * slept[k]

RequestContract ==
    request.pc # "idle" =>
        /\ \A k \in 1..Len(RetriedAnswers) : RetriedAnswers[k] \in Transient
        /\ Len(request.slept) = Len(RetriedAnswers)
        /\ Len(request.slept) <= 3
        /\ DelaysDouble(request.slept)
        /\ request.pc = "returned" => request.seen[Len(request.seen)] = "200"
        /\ request.pc = "raised" =>
              /\ request.seen[Len(request.seen)] # "200"
              /\ request.error = request.seen[Len(request.seen)]
              /\ request.error \in Transient =>
                    Len(request.slept) = (IF request.client = "kvk" THEN 2 ELSE 3)

\* C18: every request to the registry source and to the financial source
\* comes to an end; it returns on the first successful response, raises at
\* once on a non-5xx HTTP error (and on any error that is not a connection
\* error, a timeout or a 5xx), goes on to another attempt only after a
\* connection error, a timeout or a 5xx, sleeps 1, 2, 4 before the successive
\* retries, makes at most 3 retries (the registry client 2, the financial
\* client 3) and then raises the error of its last attempt
C18_RequestsTerminateWithBackoff ==
    /\ []RequestContract
    /\ (request.pc = "sending") ~> RequestOver

\* a request to the financial source slept 1, 2 and 4 and raised the fourth error
C18_RaisedAfterThreeRetries ==
    /\ request.pc = "raised"
    /\ request.client = "apollo"
    /\ request.slept = <<1, 2, 4>>
    /\ Len(request.seen) = 4

\* ------------------------------------------------------------------ services/enrichment.py: the orchestrator

\* compute_extraction_quality counts the fields of the schema whose value is
\* neither None nor "" nor []; the quotient by len(schema) is taken in
\* AverageQuality
ExtractedCount(extracted_data, schema) ==
    Cardinality({ k \in DOMAIN schema :
                    LET value == Get(extracted_data, schema[k], NoneVal)
                    IN  value # NoneVal /\ value # StrVal(<<>>) /\ value # ListVal(<<>>) })

\* the vacancies _update_company_quality_scores averages for one company
ExtractedVacancies(company_id, profile_id) ==
    { v \in vacancies : /\ v.company_id = company_id
                        /\ v.search_profile_id = profile_id
                        /\ v.extraction_status = "completed"
                        /\ v.extracted_data # NoneDict }

\* the qualities of the vacancies added up and never divided by their number
TotalQuality(vs, schema) ==
    IF Len(schema) = 0 THEN 0
    ELSE RoundHalfEven(10000 * SumOver([ v \in vs |->
                                           ExtractedCount(v.extracted_data, schema) ], vs),
                       Len(schema))

\* round(total_quality / len(vacancies), 4) in ten-thousandths; an empty
\* schema gives every vacancy 0.0
AverageQuality(vs, schema) ==
    IF Len(schema) = 0 THEN 0
    ELSE RoundHalfEven(10000 * SumOver([ v \in vs |->
                                           ExtractedCount(v.extracted_data, schema) ], vs),
                       Len(schema) * Cardinality(vs))

\* _update_company_quality_scores: the companies table it commits
_update_company_quality_scores(profile_id) ==
    LET active == { i \in DOMAIN prompts :
                      prompts[i].profile_id = profile_id /\ prompts[i].is_active }
    IN  IF active = {} THEN companies
        ELSE [ i \in DOMAIN companies |->
                 LET vs == ExtractedVacancies(companies[i].id, profile_id)
                 IN  IF vs = {} THEN companies[i]
                     ELSE [ companies[i] EXCEPT
                              !.extraction_quality =
                                  AverageQuality(vs,
                                      prompts[CHOOSE k \in active : TRUE].extraction_schema) ] ]

\* the external pass selects before the qualities are recomputed
PassesExternalBeforeQuality(pass_type) ==
    IF pass_type = "both" THEN << "llm", "external", "quality" >>
    ELSE (IF pass_type \in { "llm", "both" } THEN << "llm", "quality" >> ELSE << >>)
         \o (IF pass_type \in { "external", "both" } THEN << "external" >> ELSE << >>)

\* the steps run_full_enrichment takes for a pass_type, in order
PassesOf(pass_type) ==
    (IF pass_type \in { "llm", "both" } THEN << "llm", "quality" >> ELSE << >>)
    \o (IF pass_type \in { "external", "both" } THEN << "external" >> ELSE << >>)

\* the pass_type values a trigger request carries: the three the pipeline
\* knows and one it does not (the field is a free string)
PassTypes == { "llm", "external", "both", "all" }

\* the extraction call may also succeed with nothing extracted
OrchLlmReplies ==
    LlmReplies \cup
    { [ kind |-> "result", success |-> TRUE,
        extracted_data |-> [ erp_systems |-> ListVal(<< None >>) ],
        tokens_input |-> 100, tokens_output |-> 5 ] }

OrchStep(step) == orch.pc = "running" /\ orch.todo # << >> /\ Head(orch.todo) = step

\* what the step leaves of run_full_enrichment after a pass that returned or raised
OrchAfterPass(key) ==
    orch' = IF ret'.ok
            THEN [ orch EXCEPT !.todo = Tail(orch.todo),
                               !.result = (key :> ret'.run) @@ orch.result ]
            ELSE [ orch EXCEPT !.pc = "raised" ]

OrchStart ==
    /\ orch.pc = "idle"
    /\ Len(runs) < MaxRuns
    /\ \E profile_id \in Profiles, pass_type \in PassTypes :
         orch' = [ pc |-> "running", profile_id |-> profile_id, pass_type |-> pass_type,
                   todo |-> PassesOf(pass_type), result |-> EmptyDict,
                   start |-> companies, runs_before |-> Len(runs) ]
    /\ UNCHANGED <<dedupVars, scoreVars, passVars, mergeTx, extraction, request, wire, ret>>

OrchLlm ==
    /\ OrchStep("llm")
    /\ run_llm_extraction(orch.profile_id, OrchLlmReplies)
    /\ OrchAfterPass("llm_run")
    /\ UNCHANGED <<companies, nextCompanyId, sessions, returned, firstRaw,
                   leads, nextLeadId, configs, clock, prompts, mergeTx, extraction, request>>

OrchQuality ==
    /\ OrchStep("quality")
    /\ companies' = _update_company_quality_scores(orch.profile_id)
    /\ orch' = [ orch EXCEPT !.todo = Tail(orch.todo) ]
    /\ UNCHANGED <<nextCompanyId, sessions, returned, firstRaw, scoreVars, passVars,
                   mergeTx, extraction, request, wire, ret>>

OrchExternal ==
    /\ OrchStep("external")
    /\ run_external_enrichment(orch.profile_id, EnrichReplies)
    /\ OrchAfterPass("external_run")
    /\ UNCHANGED <<vacancies, nextCompanyId, sessions, returned, firstRaw,
                   leads, nextLeadId, configs, clock, prompts, mergeTx, extraction, request>>

FullRet(ok) ==
    [ op |-> "run_full_enrichment", ok |-> ok, profile |-> orch.profile_id,
      pass_type |-> orch.pass_type, result |-> orch.result, start |-> orch.start ]

OrchReturn ==
    /\ orch.pc = "running"
    /\ orch.todo = << >>
    /\ ret' = FullRet(TRUE)
    /\ orch' = IdleOrch
    /\ UNCHANGED <<dedupVars, scoreVars, passVars, mergeTx, extraction, request, wire>>

\* the exception of a pass leaves run_full_enrichment
OrchRaise ==
    /\ orch.pc = "raised"
    /\ ret' = FullRet(FALSE)
    /\ orch' = IdleOrch
    /\ UNCHANGED <<dedupVars, scoreVars, passVars, mergeTx, extraction, request, wire>>

OrchSchema == << "erp_systems", "automation_status", "team_size", "tools" >>

InitOrch ==
    /\ InitDedupIdle
    /\ InitJobsIdle
    /\ \E quality \in { NoInt, 2000 } :
          companies = << HarvestedCompany(1, Name_AcmeBV, quality),
                         HarvestedCompany(2, Name_GlobexNV, NoInt) >>
    /\ nextCompanyId = 3
    /\ vacancies = { HarvestedVacancy(1, 1, 1, Text_Vacancy),
                     HarvestedVacancy(2, 2, 1, Text_Vacancy),
                     HarvestedVacancy(3, 1, 1, Text_Padded),
                     HarvestedVacancy(4, 2, 2, Text_Vacancy) }
    /\ leads = <<>>
    /\ nextLeadId = 1
    /\ configs = <<>>
    /\ clock = 100
    /\ runs = <<>>
    /\ prompts = << [ id |-> 1, profile_id |-> 1, version |-> 1, is_active |-> TRUE,
                      extraction_schema |-> OrchSchema ] >>
    /\ ret = PassRet("none", TRUE, 0, 0, {})

NextOrch ==
    OrchStart \/ OrchLlm \/ OrchQuality \/ OrchExternal \/ OrchReturn \/ OrchRaise

SpecOrch == InitOrch /\ [][NextOrch]_vars

\* ---- claims on the orchestrator ----

BelowThreshold(company) ==
    \/ company.extraction_quality = NoInt
    \/ company.extraction_quality < enrichment_min_quality_threshold

\* the runs the invocation that returns with this step has added
RunsAdded == { k \in DOMAIN runs : k > orch.runs_before }

NamedPassTypes(pass_type) ==
    (IF pass_type \in { "llm", "both" } THEN { "llm" } ELSE {})
    \cup (IF pass_type \in { "external", "both" } THEN { "external" } ELSE {})

\* C20: a run_full_enrichment that returns has run exactly the passes its
\* pass_type names: the result has key llm_run iff pass_type is "llm" or
\* "both" and key external_run iff it is "external" or "both", each key holds
\* the completed run of that pass for the profile, and no other run was
\* added.  With "both" the LLM run precedes the external run, and every
\* pending company whose extraction_quality was NULL or below the threshold
\* when the invocation began and is at or above it after the recompute has
\* been attempted by the external run of the same invocation.
C20_RunsExactlyTheNamedPasses ==
    [][ ( orch.pc = "running" /\ orch' = IdleOrch )
        => LET result == ret'.result
           IN  /\ ret'.op = "run_full_enrichment" /\ ret'.ok
               /\ ("llm_run" \in DOMAIN result) <=> (orch.pass_type \in { "llm", "both" })
               /\ ("external_run" \in DOMAIN result)
                     <=> (orch.pass_type \in { "external", "both" })
               /\ { result[key] : key \in DOMAIN result } = RunsAdded
               /\ { runs[k].pass_type : k \in RunsAdded } = NamedPassTypes(orch.pass_type)
               /\ Cardinality(RunsAdded) = Cardinality(NamedPassTypes(orch.pass_type))
               /\ \A key \in DOMAIN result :
                     /\ runs[result[key]].pass_type
                           = (IF key = "llm_run" THEN "llm" ELSE "external")
                     /\ runs[result[key]].profile_id = orch.profile_id
                     /\ runs[result[key]].status = "completed"
               /\ orch.pass_type = "both" =>
                     /\ result["llm_run"] < result["external_run"]
                     /\ \A i \in DOMAIN companies :
                           ( /\ orch.start[i].enrichment_status = "pending"
                             /\ BelowThreshold(orch.start[i])
                             /\ ~BelowThreshold(companies[i]) )
                           => /\ companies[i].enrichment_status \in { "completed", "failed" }
                              /\ companies[i].enrichment_run_id = result["external_run"]
      ]_vars

\* run_full_enrichment with "both" has returned; a company whose quality was
\* NULL at the start was extracted to a quality above the threshold and
\* enriched by the external run of the same invocation
C20_ExtractedAndEnrichedAtOnce ==
    /\ orch.pc = "idle"
    /\ ret.op = "run_full_enrichment"
    /\ ret.ok
    /\ ret.pass_type = "both"
    /\ \E i \in DOMAIN companies :
          /\ ret.start[i].extraction_quality = NoInt
          /\ ~BelowThreshold(companies[i])
          /\ companies[i].enrichment_run_id = ret.result["external_run"]

\* ------------------------------------------------------------------ dedup.py: normalize_company_name on its own

Stem_Acme == <<"A","c","m","e">>

\* the words a company name is written with before its legal suffix
NameStems == { Stem_Acme, Lower(Stem_Acme), Name_FooAndBar }

\* a word between the stem and the trailing suffix: none, or a legal suffix
MiddleWords == { <<>>, <<"B","V">>, <<"B",".","V",".">>, <<"G","m","b","H">> }

\* the writings of one trailing legal suffix (case and punctuation vary)
SuffixWritings ==
    [ none |-> { <<>> },
      bv |-> { <<"B","V">>, <<"B",".","V",".">>, <<"B",".","V">>,
               <<"b","v">>, <<"b",".","v",".">> },
      nv |-> { <<"N","V">>, <<"N",".","V",".">>, <<"n",".","v",".">> },
      ltd |-> { <<"L","t","d">>, <<"L","t","d",".">>, <<"l","t","d">> } ]

Blank == <<" ">>

\* the name as typed: the parts that are there, one blank between them
Written(stem, middle, suffix) ==
    stem \o (IF middle = <<>> THEN <<>> ELSE Blank \o middle)
         \o (IF suffix = <<>> THEN <<>> ELSE Blank \o suffix)

\* the calls to check: a name as typed and a second writing of the same
\* name (other case, blanks around it, other punctuation of the trailing suffix)
NameInputs ==
    UNION { { [ op |-> "none", ok |-> TRUE, name |-> Written(stem, middle, suffix),
                middle |-> middle, kind |-> kind,
                again |-> pad \o Written(IF lowered THEN Lower(stem) ELSE stem,
                                         IF lowered THEN Lower(middle) ELSE middle,
                                         other) \o pad ] :
                stem \in NameStems, middle \in MiddleWords,
                lowered \in BOOLEAN, pad \in { <<>>, Blank },
                suffix \in SuffixWritings[kind], other \in SuffixWritings[kind] } :
            kind \in DOMAIN SuffixWritings }

\* normalize_company_name is applied to the name, to its own result, and to
\* the second writing
Normalize ==
    /\ ret.op = "none"
    /\ ret' = [ ret EXCEPT !.op = "normalize_company_name" ]
              @@ [ once |-> normalize_company_name(ret.name),
                   twice |-> normalize_company_name(normalize_company_name(ret.name)),
                   again_once |-> normalize_company_name(ret.again) ]
    /\ UNCHANGED <<dedupVars, scoreVars, passVars, jobVars>>

InitNormalize == InitDedup /\ InitScoreIdle /\ InitJobsIdle /\ ret \in NameInputs

NextNormalize == Normalize

SpecNormalize == InitNormalize /\ [][NextNormalize]_vars

\* ---- claims on normalize_company_name ----

\* C22: normalize_company_name is idempotent, also on names that end in more
\* than one legal suffix, and two writings of a name that differ only in case,
\* in the blanks around it or in the punctuation of the trailing suffix
\* normalize to the same string
C22_NormalizeIdempotent ==
    ret.op = "normalize_company_name" =>
        /\ ret.twice = ret.once
        /\ ret.again_once = ret.once

\* a name that ends in two legal suffixes has been normalized
C22_TwoLegalSuffixes ==
    /\ ret.op = "normalize_company_name"
    /\ ret.middle \in { <<"B","V">>, <<"B",".","V",".">>, <<"G","m","b","H">> }
    /\ ret.kind # "none"
    /\ ret.once # <<>>

\* ------------------------------------------------------------------ harvester.py: the harvest run

\* a vacancies row as _store_vacancy adds it
StoredVacancy(id, item, source, company_id, profile_id, now) ==
    [ HarvestedVacancy(id, company_id, profile_id, Text_Vacancy) EXCEPT
        !.source = source, !.first_seen_at = now, !.last_seen_at = now ]
    @@ [ external_id |-> item.external_id ]

\* ix_vacancy_source_external: unique on (source, external_id); only NULL
\* external ids are exempt, and the scrapers write "" for a missing id
IndexRefuses(vacs, source, external_id) ==
    \E v \in vacs : v.source = source /\ v.external_id = external_id

\* select(Vacancy).where(source == ..., external_id == ...)
StoredAs(vacs, source, external_id) ==
    { v \in vacs : v.source = source /\ v.external_id = external_id }

\* find_or_create_company inside the session of the run: the rows after the
\* call and the id it returns (0 when scalar_one_or_none raises)
CompanyFor(comps, nextId, raw) ==
    LET normalized == NormalizedName[raw]
        hits == { i \in DOMAIN comps : comps[i].normalized_name = normalized }
    IN  IF hits = {}
        THEN [ comps |-> Append(comps, NewCompany(nextId, raw, normalized)),
               nextId |-> nextId + 1, id |-> nextId ]
        ELSE IF Cardinality(hits) = 1
        THEN [ comps |-> comps, nextId |-> nextId, id |-> comps[CHOOSE i \in hits : TRUE].id ]
        ELSE [ comps |-> comps, nextId |-> nextId, id |-> 0 ]

\* _store_vacancy on the state of the run so far: the rows seen by the
\* session, the count of new vacancies, and how the loop went on ("ok", or
\* the error that ended it)
_store_vacancy(st, item, source, profile_id, now) ==
    LET existing == IF item.external_id # <<>>
                    THEN StoredAs(st.vacs, source, item.external_id) ELSE {}
        company == CompanyFor(st.comps, st.nextId, item.company_name)
        id == 1 + Max({ 0 } \cup { v.id : v \in st.vacs })
    IN  IF existing # {}
        THEN [ st EXCEPT !.vacs = (st.vacs \ existing) \cup
                                    { [ v EXCEPT !.last_seen_at = now ] : v \in existing } ]
        ELSE IF company.id = 0
        THEN [ st EXCEPT !.error = "lookup" ]
        ELSE IF IndexRefuses(st.vacs, source, item.external_id)
        THEN [ st EXCEPT !.error = "flush" ]
        ELSE [ st EXCEPT !.comps = company.comps, !.nextId = company.nextId,
                         !.vacs = st.vacs \cup
                            { StoredVacancy(id, item, source, company.id, profile_id, now) },
                         !.new_count = st.new_count + 1 ]

\* for item in all_results: ... (an exception ends the loop)
RECURSIVE StoreAll(_, _, _, _, _)
StoreAll(st, items, source, profile_id, now) ==
    IF items = <<>> \/ st.error # "ok" THEN st
    ELSE StoreAll(_store_vacancy(st, Head(items), source, profile_id, now),
                  Tail(items), source, profile_id, now)

HarvestRet(status, source, profile_id, results, found, new_count) ==
    [ op |-> "run_harvest", ok |-> status # "raised", status |-> status,
      source |-> source, profile |-> profile_id, results |-> results,
      vacancies_found |-> found, vacancies_new |-> new_count ]

\* run_harvest with the results _search_source returns.  An exception in
\* the loop marks the run failed and the commit follows; after a failed
\* flush the transaction is rolled back, and the commit either stores
\* nothing or raises on the session left in that state.
run_harvest(profile_id, source, results) ==
    LET now == clock + 1
        done == StoreAll([ vacs |-> vacancies, comps |-> companies, nextId |-> nextCompanyId,
                           new_count |-> 0, error |-> "ok" ],
                         results, source, profile_id, now)
    IN  /\ clock' = now
        /\ IF done.error = "flush"
           THEN /\ \E status \in { "failed", "raised" } :
                     ret' = HarvestRet(status, source, profile_id, results, 0, 0)
                /\ UNCHANGED <<vacancies, companies, nextCompanyId>>
           ELSE /\ vacancies' = done.vacs
                /\ companies' = done.comps
                /\ nextCompanyId' = done.nextId
                /\ ret' = IF done.error = "ok"
                          THEN HarvestRet("completed", source, profile_id, results,
                                          Len(results), done.new_count)
                          ELSE HarvestRet("failed", source, profile_id, results, 0, 0)

Id_Job1 == <<"j","o","b","1">>
Id_Job2 == <<"j","o","b","2">>

\* the results of the scrapers: a job with its id, or with "" when the source
\* gave none
HarvestItems ==
    { [ external_id |-> id, company_name |-> name ] :
        id \in { Id_Job1, Id_Job2, <<>> }, name \in { Name_AcmeBV_dots, Name_GlobexNV } }

MaxResults == 2

ResultSets ==
    UNION { [ 1..n -> HarvestItems ] : n \in 0..MaxResults }

Sources == { "google_jobs", "indeed" }

MaxHarvests == 2

RunHarvest ==
    /\ clock < MaxHarvests
    /\ \E profile_id \in Profiles, source \in Sources, results \in ResultSets :
          run_harvest(profile_id, source, results)
    /\ UNCHANGED <<sessions, returned, firstRaw, leads, nextLeadId, configs,
                   passVars, jobVars>>

InitHarvest == InitDedup /\ InitScoreIdle /\ InitJobsIdle /\ ret = NoOp

NextHarvest == RunHarvest

SpecHarvest == InitHarvest /\ [][NextHarvest]_vars

\* ---- claims on the harvest ----

\* the rows of the table that carry the key of one of the items
RowsHarvestedAgain(vacs, source, results) ==
    { v \in vacs : \E k \in DOMAIN results : v.external_id = results[k].external_id
                                             /\ v.source = source }

\* C21: after every harvest run no two vacancies share a non-empty (source,
\* external_id); an item whose (source, external_id) is already stored
\* creates no row and no company, its vacancy only gets last_seen_at = now
\* and it is not counted in vacancies_new; a run that repeats the result set
\* of the completed run before it completes with vacancies_new = 0.
C21_HarvestNeverDuplicates ==
    [][ clock' # clock =>
          LET again == RowsHarvestedAgain(vacancies, ret'.source, ret'.results)
          IN  /\ \A v, w \in vacancies' :
                    ( /\ v.external_id # <<>>
                      /\ v.source = w.source
                      /\ v.external_id = w.external_id ) => v = w
              /\ ret'.status = "completed" =>
                    /\ \A v \in again : [ v EXCEPT !.last_seen_at = clock' ] \in vacancies'
                    /\ ret'.vacancies_new = Cardinality(vacancies') - Cardinality(vacancies)
                    /\ ret'.vacancies_new
                          <= Cardinality({ k \in DOMAIN ret'.results :
                                             StoredAs(vacancies, ret'.source,
                                                      ret'.results[k].external_id) = {} })
              /\ ( /\ ret.op = "run_harvest"
                   /\ ret.status = "completed"
                   /\ ret'.source = ret.source
                   /\ ret'.results = ret.results )
                 => /\ ret'.status = "completed"
                    /\ ret'.vacancies_new = 0
                    /\ companies' = companies
                    /\ Cardinality(vacancies') = Cardinality(vacancies)
      ]_vars

\* a result set with a job that carries no id has been harvested and stored,
\* and the same result set has been harvested again
C21_HarvestedTwiceWithoutId ==
    /\ ret.op = "run_harvest"
    /\ clock = 2
    /\ \E k \in DOMAIN ret.results : ret.results[k].external_id = <<>>
    /\ \E v \in vacancies : v.external_id = <<>> /\ v.source = ret.source
                            /\ v.first_seen_at = 1

\* ------------------------------------------------------------------ enrichment followed by scoring

Code_7820 == <<"7","8","2","0">>

\* the registry profile of a staffing agency as _parse_profile returns it:
\* sbi_codes is a list of {"code": ..., "description": ...} dicts
KvkStaffingProfile ==
    [ KvkProfile EXCEPT !.sbi_codes = << [ form |-> "dict", code |-> Code_7820 ] >> ]

StaffingReplies ==
    { [ find |-> Answered([ kind |-> "data", kvk_number |-> Kvk_Globex ]),
        profile |-> Answered(KvkStaffingProfile), apollo |-> Answered(ApolloOrg) ],
      [ find |-> Answered([ kind |-> "data", kvk_number |-> Kvk_Acme ]),
        profile |-> Answered(KvkProfile), apollo |-> Answered(ApolloOrg) ],
      [ find |-> Unanswered(<< "404" >>), profile |-> Unanswered(<< "404" >>),
        apollo |-> Answered([ kind |-> "empty" ]) ] }

\* a company whose industry codes were stored as plain strings
CompanyWithCodes(id, raw, codes) ==
    [ HarvestedCompany(id, raw, 5000) EXCEPT !.sbi_codes = codes ]

EnrichForScoring ==
    /\ Len(runs) < MaxRuns
    /\ \E p \in Profiles : run_external_enrichment(p, StaffingReplies)
    /\ UNCHANGED <<vacancies, nextCompanyId, sessions, returned, firstRaw,
                   leads, nextLeadId, configs, clock, prompts, mergeTx, extraction, request, orch>>

ScoreEnriched ==
    /\ \E p \in Profiles : score_profile(p)
    /\ UNCHANGED <<otherVars>>

InitEnrichScore ==
    /\ InitDedupIdle
    /\ InitJobsIdle
    /\ \E codes \in { NoCodes, << [ form |-> "str", code |-> Code_7820 ] >>, << Code_6201 >> } :
          companies = << HarvestedCompany(1, Name_AcmeBV, 5000),
                         CompanyWithCodes(2, Name_GlobexNV, codes) >>
    /\ nextCompanyId = 3
    /\ vacancies = { HarvestedVacancy(1, 1, 1, Text_Vacancy),
                     HarvestedVacancy(2, 2, 1, Text_Vacancy),
                     HarvestedVacancy(3, 2, 2, Text_Vacancy) }
    /\ leads = <<>>
    /\ nextLeadId = 1
    /\ configs = <<>>
    /\ clock = 100
    /\ runs = <<>>
    /\ prompts = <<>>
    /\ ret = PassRet("none", TRUE, 0, 0, {})

NextEnrichScore == EnrichForScoring \/ ScoreEnriched

SpecEnrichScore == InitEnrichScore /\ [][NextEnrichScore]_vars

\* ---- claims on scoring after enrichment ----

\* one of the company's stored industry codes starts with a prefix the
\* profile's enabled exclusion policy names
HasExcludedCode(company, profile_id) ==
    LET config == _get_scoring_config(profile_id)
    IN  /\ config.kind = "config"
        /\ Get(config.excluded_company_types, "enabled", FALSE)
        /\ \E i \in DOMAIN CodesOrEmpty(company.sbi_codes) :
             \E j \in DOMAIN Get(config.excluded_company_types, "excluded_sbi_prefixes", <<>>) :
                StartsWith(company.sbi_codes[i].code,
                           config.excluded_company_types.excluded_sbi_prefixes[j])

\* C23: a scoring pass marks "excluded" every company it scores whose stored
\* industry codes include one that starts with an excluded prefix (policy
\* enabled), also when the external enrichment pass wrote the codes from the
\* registry profile
C23_ExcludedCodeExcludesCompany ==
    [][ ( ret'.op = "score_profile" /\ ret'.ok )
        => \A i \in DOMAIN companies :
              ( /\ HasActiveVacancy(companies[i].id, ret'.profile)
                /\ HasExcludedCode(companies[i], ret'.profile) )
              => /\ LeadHits(leads', companies[i].id, ret'.profile) # {}
                 /\ \A k \in LeadHits(leads', companies[i].id, ret'.profile) :
                       leads'[k].status = "excluded"
      ]_vars

\* a scoring pass has scored a company whose codes, written by the external
\* pass, include 7820
C23_ScoredAfterEnrichment ==
    /\ ret.op = "score_profile"
    /\ ret.ok
    /\ \E i \in DOMAIN companies :
          /\ companies[i].enrichment_status = "completed"
          /\ companies[i].sbi_codes = << [ form |-> "dict", code |-> Code_7820 ] >>
          /\ HasActiveVacancy(companies[i].id, ret.profile)
          /\ LeadHits(leads, companies[i].id, ret.profile) # {}

\* ------------------------------------------------------------------ scoring.py: the fit score on its own

Text_Exact == <<"E","x","a","c","t">>
Text_AdHoc == <<"a","d"," ","h","o","c">>

\* what one vacancy's extraction holds under a key: nothing (key absent),
\* null, or a value
ErpValues ==
    { Absent, NoneVal, ListVal(<< Text_SAP >>), ListVal(<< Text_Exact, Text_SAP >>),
      ListVal(<< Text_SAP, Text_SAP >>) }
AutomationValues ==
    { Absent, NoneVal, StrVal(Text_Basware), StrVal(Text_NoTool), StrVal(Text_AdHoc) }

\* the extracted_data dicts of the vacancies, and NULL
ExtractedDicts ==
    { NoneDict } \cup
    { [ k \in { "erp_systems" : x \in { erp } \ { Absent } }
             \cup { "automation_status" : x \in { auto } \ { Absent } } |->
          IF k = "erp_systems" THEN erp ELSE auto ] :
        erp \in ErpValues, auto \in AutomationValues }

MaxVacancies == 2

\* the vacancy lists _compute_fit_score is called with
FitInputs ==
    UNION { [ 1..n -> { [ extracted_data |-> d ] : d \in ExtractedDicts } ] :
              n \in 1..MaxVacancies }

FitCompany == Company(1, Name_AcmeBV, "200-499", NoRange, 4, << Code_6201 >>)

\* _compute_fit_score(company, vacancies, DEFAULT_FIT_CRITERIA): the data it
\* merged and what it returned
ComputeFit ==
    /\ ret.op = "none"
    /\ \E merged \in _aggregate_extracted_data(ret.vacs) :
          ret' = [ op |-> "_compute_fit_score", ok |-> TRUE, vacs |-> ret.vacs,
                   merged |-> merged,
                   fit |-> FitFor(FitCompany, merged, DEFAULT_FIT_CRITERIA) ]
    /\ UNCHANGED <<dedupVars, scoreVars, passVars, jobVars>>

InitFit ==
    /\ InitDedup /\ InitScoreIdle /\ InitJobsIdle
    /\ \E vacs \in FitInputs : ret = [ op |-> "none", ok |-> TRUE, vacs |-> vacs ]

NextFit == ComputeFit

SpecFit == InitFit /\ [][NextFit]_vars

\* ---- claims on the fit score ----

\* the values the vacancies carry under a key (null and absent left out)
ValuesFor(vacs, key) ==
    { vacs[i].extracted_data[key] :
        i \in { j \in DOMAIN vacs : /\ DictTruthy(vacs[j].extracted_data)
                                    /\ key \in DOMAIN vacs[j].extracted_data
                                    /\ vacs[j].extracted_data[key] # NoneVal } }

\* the class the criterion is to give a merged automation_status text
ClassOfText(text) ==
    IF \E i \in DOMAIN automation_keywords : Contains(Lower(text), automation_keywords[i])
    THEN "has_tool"
    ELSE IF \E i \in DOMAIN no_automation_keywords :
               Contains(Lower(text), no_automation_keywords[i])
    THEN "confirmed_none"
    ELSE "unknown"

\* C24: the no_existing_automation entry of the breakdown is "has_tool" when
\* the merged automation_status text holds a tool keyword, else
\* "confirmed_none" when it holds a negation keyword, else "unknown", with the
\* score configured for the class; when no vacancy supplies an
\* automation_status it is "unknown"
C24_AutomationClassified ==
    ( ret.op = "_compute_fit_score" /\ ~ret.fit.raised ) =>
        LET entry == ret.fit.breakdown["no_existing_automation"]
            supplied == ValuesFor(ret.vacs, "automation_status")
        IN  /\ entry.value =
                  IF supplied = {} THEN "unknown"
                  ELSE ClassOfText(ret.merged["automation_status"].v)
            /\ entry.score = DEFAULT_FIT_CRITERIA.no_existing_automation.scores[entry.value]

\* the fit score was computed for vacancies none of which supplies an
\* automation_status
C24_NoStatusSupplied ==
    /\ ret.op = "_compute_fit_score"
    /\ ~ret.fit.raised
    /\ ValuesFor(ret.vacs, "automation_status") = {}
    /\ "no_existing_automation" \in DOMAIN ret.fit.breakdown

\* C25: for each key the merged data holds, under a key with list values,
\* exactly the union of the elements of the vacancies' lists, each once and
\* none of them null; under a key with string values the longest non-empty
\* string; null only when no vacancy gave a value; and the fit computation
\* on the merged data does not fail.  This for every order of the vacancies.
C25_AggregateIsUnion ==
    ret.op = "_compute_fit_score" =>
        /\ ~ret.fit.raised
        /\ \A key \in DOMAIN ret.merged :
              LET given == ValuesFor(ret.vacs, key)
                  merged == ret.merged[key]
              IN  /\ merged = NoneVal <=> given = {}
                  /\ (given # {} /\ key = "erp_systems") =>
                        /\ merged.t = "list"
                        /\ Range(merged.v) = UNION { Range(g.v) : g \in given }
                        /\ None \notin Range(merged.v)
                        /\ \A i, j \in DOMAIN merged.v : merged.v[i] = merged.v[j] => i = j
                  /\ (given # {} /\ key = "automation_status") =>
                        /\ merged \in given
                        /\ \A g \in given : Len(g.v) <= Len(merged.v)

\* the merge met a vacancy with null under erp_systems before one with a list
C25_NullBeforeList ==
    /\ ret.op = "_compute_fit_score"
    /\ Len(ret.vacs) = 2
    /\ DictTruthy(ret.vacs[1].extracted_data)
    /\ "erp_systems" \in DOMAIN ret.vacs[1].extracted_data
    /\ ret.vacs[1].extracted_data["erp_systems"] = NoneVal
    /\ DictTruthy(ret.vacs[2].extracted_data)
    /\ "erp_systems" \in DOMAIN ret.vacs[2].extracted_data
    /\ ret.vacs[2].extracted_data["erp_systems"].t = "list"

\* ------------------------------------------------------------------ scoring.py: the timing score on its own

\* the vacancies the timing score is computed over
TimingVacancies == { V_OldSap, V_NoTool, V_Plain, V_OtherProfile }

\* the vacancy lists _compute_timing_score is called with
TimingInputs == UNION { [ 1..n -> TimingVacancies ] : n \in 0..MaxVacancies }

\* the timing_signals maps: every sub-map of the default one
SignalMaps ==
    { [ k \in keys |-> DEFAULT_TIMING_SIGNALS[k] ] : keys \in SUBSET DOMAIN DEFAULT_TIMING_SIGNALS }

TimingNow == 100

\* _compute_timing_score(vacancies, signals) at the day TimingNow
ComputeTiming ==
    /\ ret.op = "none"
    /\ ret' = [ op |-> "_compute_timing_score", ok |-> TRUE, vacs |-> ret.vacs,
                signals |-> ret.signals,
                timing |-> _compute_timing_score(ret.vacs, ret.signals, TimingNow) ]
    /\ UNCHANGED <<dedupVars, scoreVars, passVars, jobVars>>

InitTiming ==
    /\ InitDedup /\ InitScoreIdle /\ InitJobsIdle
    /\ \E vacs \in TimingInputs, signals \in SignalMaps :
          ret = [ op |-> "none", ok |-> TRUE, vacs |-> vacs, signals |-> signals ]

NextTiming == ComputeTiming

SpecTiming == InitTiming /\ [][NextTiming]_vars

\* ---- claims on the timing score ----

\* the signals whose condition holds, read from the values the breakdown records
FiredSignals(breakdown) ==
    { k \in DOMAIN breakdown :
        \/ k = "vacancy_age_over_60_days" /\ breakdown[k].value > 60
        \/ k = "multiple_vacancies_same_role" /\ breakdown[k].value >= 2
        \/ k = "repeated_publication" /\ breakdown[k].value
        \/ k = "multi_platform" /\ Cardinality(breakdown[k].value) >= 2
        \/ k = "management_vacancy" /\ breakdown[k].value }

\* C26: a signal whose condition holds but whose key is absent from the
\* configured timing_signals adds no points, so total_points <= max_points
\* and the score is 100 * (configured points of the fired signals) / (sum of
\* all configured points), the clamp to 100 never being needed
C26_AbsentSignalAddsNothing ==
    ret.op = "_compute_timing_score" =>
        LET t == ret.timing
            fired == FiredSignals(t.breakdown)
            configured == fired \cap DOMAIN ret.signals
        IN  /\ \A k \in fired \ DOMAIN ret.signals : t.breakdown[k].points = 0
            /\ t.total_points <= t.max_points
            /\ t.total_points = SumOver(ret.signals, configured)
            /\ t.max_points > 0 =>
                  t.score = RoundHalfEven(1000 * SumOver(ret.signals, configured), t.max_points)

\* the same, for the calls in which every fired signal has its key configured
C26_ConfiguredSignalsOnly ==
    ( ret.op = "_compute_timing_score"
      /\ FiredSignals(ret.timing.breakdown) \subseteq DOMAIN ret.signals ) =>
        LET t == ret.timing
            fired == FiredSignals(t.breakdown)
        IN  /\ t.total_points <= t.max_points
            /\ t.total_points = SumOver(ret.signals, fired)
            /\ t.max_points > 0 =>
                  t.score = RoundHalfEven(1000 * SumOver(ret.signals, fired), t.max_points)

\* the timing score was computed with a signal fired whose key the configured
\* map does not hold, and the points passed the maximum
C26_FiredSignalNotConfigured ==
    /\ ret.op = "_compute_timing_score"
    /\ FiredSignals(ret.timing.breakdown) \ DOMAIN ret.signals # {}
    /\ ret.timing.total_points > ret.timing.max_points
    /\ ret.timing.max_points > 0

\* ---- claims on the maps a pass scores with ----

\* the profile's active scoring_configs rows
ActiveConfigRows(profile_id) ==
    { configs[j] : j \in { k \in DOMAIN configs :
                             configs[k].profile_id = profile_id /\ configs[k].is_active } }

\* C27: a pass over a profile with an active scoring_configs row scores with
\* that row's timing_signals and fit_criteria as stored: the maximum of the
\* timing points is the sum of the stored map and the fit breakdown holds
\* stored criteria only; so under a row whose timing_signals is empty every
\* scored lead has timing_score 0, and under a row whose fit_criteria is empty
\* every scored lead has fit_score 0
C27_ScoresWithStoredMaps ==
    PassDone =>
        \A row \in ActiveConfigRows(ret.profile) :
            \A l \in ScoredLeads :
                /\ l.scoring_breakdown.timing.max_points =
                      SumOver(row.timing_signals, DOMAIN row.timing_signals)
                /\ DOMAIN l.scoring_breakdown.fit.breakdown \subseteq DOMAIN row.fit_criteria
                /\ DOMAIN row.timing_signals = {} => l.timing_score = 0
                /\ DOMAIN row.fit_criteria = {} => l.fit_score = 0

\* a pass under an active row with both maps empty has scored a lead with a
\* timing score and a fit score above 0
C27_ScoredUnderEmptyMaps ==
    /\ PassDone
    /\ \E row \in ActiveConfigRows(ret.profile) :
          /\ DOMAIN row.timing_signals = {}
          /\ DOMAIN row.fit_criteria = {}
          /\ \E l \in ScoredLeads : l.timing_score > 0 /\ l.fit_score > 0

\* ------------------------------------------------------------------ services/enrichment.py: the quality recompute on its own

Text_Five == <<"5">>

\* the extracted_data of the vacancies the recompute reads: nothing
\* extracted, and one, two and three fields of the schemas filled
Data_Empty == [ erp_systems |-> ListVal(<< >>), automation_status |-> StrVal(<< >>) ]
Data_Erp == [ erp_systems |-> ListVal(<< Text_SAP >>), team_size |-> NoneVal ]
Data_ErpTools ==
    [ erp_systems |-> ListVal(<< Text_SAP >>), tools |-> ListVal(<< Text_Basware >>) ]
Data_Full ==
    [ erp_systems |-> ListVal(<< Text_SAP >>), automation_status |-> StrVal(Text_NoTool),
      team_size |-> StrVal(Text_Five), seniority |-> StrVal(Text_Five) ]
QualityData == { Data_Empty, Data_Erp, Data_ErpTools, Data_Full }

\* a vacancy after an LLM pass
ExtractedVacancy(id, company_id, profile_id, extraction_status, extracted_data) ==
    [ HarvestedVacancy(id, company_id, profile_id, Text_Vacancy) EXCEPT
        !.extraction_status = extraction_status, !.extracted_data = extracted_data ]

\* the extraction_prompts tables: no row, a deactivated row, and an active
\* row with a schema of no, three or four fields
QualityPrompts ==
    { << >> } \cup
    { << [ id |-> 1, profile_id |-> 1, version |-> 1, is_active |-> FALSE,
           extraction_schema |-> ExtractionSchema ] >> } \cup
    { << [ id |-> 1, profile_id |-> 1, version |-> 1, is_active |-> TRUE,
           extraction_schema |-> schema ] >> :
        schema \in { << >>, ExtractionSchema, OrchSchema } }

QualityProfile == 1

\* _update_company_quality_scores(QualityProfile)
RecomputeQuality ==
    /\ ret.op = "none"
    /\ companies' = _update_company_quality_scores(QualityProfile)
    /\ ret' = [ op |-> "_update_company_quality_scores", ok |-> TRUE,
                profile |-> QualityProfile, before |-> companies ]
    /\ UNCHANGED <<nextCompanyId, sessions, returned, firstRaw, scoreVars, passVars, jobVars>>

InitQuality ==
    /\ InitDedupIdle
    /\ InitJobsIdle
    /\ \E quality \in { NoInt, 5000 } :
          companies = << HarvestedCompany(1, Name_AcmeBV, quality),
                         HarvestedCompany(2, Name_GlobexNV, quality) >>
    /\ nextCompanyId = 3
    /\ \E d1 \in QualityData, d2 \in QualityData \cup { NoneDict },
          status \in { "completed", "failed" }, p \in Profiles :
          vacancies = { ExtractedVacancy(1, 1, QualityProfile, "completed", d1),
                        ExtractedVacancy(2, 1, QualityProfile, status, d2),
                        ExtractedVacancy(3, 2, p, "completed", Data_Erp) }
    /\ leads = <<>>
    /\ nextLeadId = 1
    /\ configs = <<>>
    /\ clock = 100
    /\ runs = <<>>
    /\ prompts \in QualityPrompts
    /\ ret = [ op |-> "none", ok |-> TRUE ]

NextQuality == RecomputeQuality

SpecQuality == InitQuality /\ [][NextQuality]_vars

\* ---- claims on the quality recompute ----

\* the profile's active prompts
ActivePrompts(profile_id) ==
    { prompts[i] : i \in { k \in DOMAIN prompts :
                             prompts[k].profile_id = profile_id /\ prompts[k].is_active } }

\* the number of fields of the schema a vacancy's extraction fills
FilledFields(v, schema) ==
    Cardinality({ k \in DOMAIN schema :
                    /\ schema[k] \in DOMAIN v.extracted_data
                    /\ v.extracted_data[schema[k]] \notin
                          { NoneVal, StrVal(<< >>), ListVal(<< >>) } })

\* the sum over the vacancies of their filled fields
RECURSIVE FilledSum(_, _)
FilledSum(vs, schema) ==
    IF vs = {} THEN 0
    ELSE LET v == CHOOSE x \in vs : TRUE
         IN  FilledFields(v, schema) + FilledSum(vs \ { v }, schema)

\* C28 as stated: after the recompute every company with a completed
\* vacancy with extracted data in the profile has extraction_quality equal to
\* the mean over those vacancies of filled fields / fields of the active
\* schema (quality in ten-thousandths: quality * fields * vacancies = 10000 *
\* filled), each vacancy's share within [0,1]; without an active prompt no
\* company changes
C28_QualityIsExactMean ==
    ret.op = "_update_company_quality_scores" =>
        /\ ActivePrompts(ret.profile) = {} => companies = ret.before
        /\ \A prompt \in ActivePrompts(ret.profile) :
              \A i \in DOMAIN companies :
                  LET vs == ExtractedVacancies(companies[i].id, ret.profile)
                      fields == Len(prompt.extraction_schema)
                  IN  vs # {} =>
                        /\ \A v \in vs : FilledFields(v, prompt.extraction_schema) \in 0..fields
                        /\ companies[i].extraction_quality * fields * Cardinality(vs)
                              = 10000 * FilledSum(vs, prompt.extraction_schema)

\* C28 amended: the stored extraction_quality is that mean rounded to four
\* decimals (within half a ten-thousandth of it), and 0 when the active
\* schema has no field; each vacancy's share is within [0,1]; without an
\* active prompt no company changes
C28_QualityIsRoundedMean ==
    ret.op = "_update_company_quality_scores" =>
        /\ ActivePrompts(ret.profile) = {} => companies = ret.before
        /\ \A prompt \in ActivePrompts(ret.profile) :
              \A i \in DOMAIN companies :
                  LET vs == ExtractedVacancies(companies[i].id, ret.profile)
                      fields == Len(prompt.extraction_schema)
                      q == companies[i].extraction_quality
                      d == fields * Cardinality(vs)
                      n == 10000 * FilledSum(vs, prompt.extraction_schema)
                  IN  vs # {} =>
                        /\ \A v \in vs : FilledFields(v, prompt.extraction_schema) \in 0..fields
                        /\ q \in 0..10000
                        /\ fields = 0 => q = 0
                        /\ 2 * (q * d - n) <= d
                        /\ 2 * (n - q * d) <= d

\* the recompute averaged two vacancies of a company under a schema of three
\* fields, and the mean has more than four decimals
C28_MeanNeededRounding ==
    /\ ret.op = "_update_company_quality_scores"
    /\ \E prompt \in ActivePrompts(ret.profile) :
          /\ Len(prompt.extraction_schema) = 3
          /\ \E i \in DOMAIN companies :
                LET vs == ExtractedVacancies(companies[i].id, ret.profile)
                IN  /\ Cardinality(vs) = 2
                    /\ (10000 * FilledSum(vs, prompt.extraction_schema)) % 6 # 0
                    /\ companies[i].extraction_quality # ret.before[i].extraction_quality

\* ---- claims on the counters of the LLM pass ----

\* run_llm_extraction has returned the run of a pass that selected vacancies
LlmPassCompleted ==
    /\ ret.op = "run_llm_extraction"
    /\ ret.ok
    /\ ret.run \in DOMAIN runs
    /\ ret.attempted # {}

\* C29: the run of a completed run_llm_extraction has items_processed =
\* items_succeeded + items_failed = the number of pending vacancies the pass
\* selected, whether a vacancy failed by an exception of the extraction call
\* or by a failure result
C29_ProcessedIsSucceededPlusFailed ==
    LlmPassCompleted =>
        LET run == runs[ret.run]
        IN  /\ run.items_processed = run.items_succeeded + run.items_failed
            /\ run.items_processed = Cardinality(ret.attempted)

\* the same for the passes in which no extraction call raised; and in every
\* pass succeeded + failed is the number selected
C29_CountersWithoutExceptions ==
    LlmPassCompleted =>
        LET run == runs[ret.run]
            raised == { id \in ret.attempted : wire[id] = "raise" }
        IN  /\ run.items_succeeded + run.items_failed = Cardinality(ret.attempted)
            /\ run.items_processed = Cardinality(ret.attempted) - Cardinality(raised)

\* a pass has completed in which an extraction call raised an exception
C29_PassWithRaisingCall ==
    /\ LlmPassCompleted
    /\ \E id \in ret.attempted : wire[id] = "raise"
    /\ runs[ret.run].items_processed < Cardinality(ret.attempted)

\* ------------------------------------------------------------------ services/extraction.py: the LLM pass task by task

\* asyncio.Semaphore(5)
semaphore_limit == 5

MaxPending == 6

NoReply == [ kind |-> "none", success |-> FALSE ]

\* the tasks asyncio.gather returns with: all of them finished
GatherReturnsAtFirstDone(task) == \E id \in DOMAIN task : task[id] = "done"

GatherReturns(task) == \A id \in DOMAIN task : task[id] = "done"

\* the tasks holding the semaphore: inside `async with semaphore`, the
\* request issued and not yet answered, or woken with the permit handed over
InFlight == IF extraction.pc = "gathering"
            THEN { id \in DOMAIN extraction.task : extraction.task[id] = "in_flight" }
            ELSE {}

\* run_llm_extraction up to asyncio.gather: the prompt is loaded, the run
\* created and the pending vacancies selected; without selected vacancies the
\* run is completed at once, without an active prompt the call raises
StartExtraction(profile_id) ==
    LET active == { i \in DOMAIN prompts :
                      prompts[i].profile_id = profile_id /\ prompts[i].is_active }
        run_id == Len(runs) + 1
        run == EnrichmentRun(run_id, profile_id, "llm", clock)
        selected == PendingVacancies(profile_id)
        ids == { v.id : v \in selected }
    IN  /\ extraction.pc = "idle"
        /\ Len(runs) < MaxRuns
        /\ IF Cardinality(active) # 1
           THEN /\ ret' = PassRet("run_llm_extraction", FALSE, profile_id, 0, {})
                /\ UNCHANGED <<runs, extraction>>
           ELSE IF selected = {}
           THEN /\ runs' = Append(runs, [ run EXCEPT !.status = "completed",
                                                     !.completed_at = clock ])
                /\ ret' = PassRet("run_llm_extraction", TRUE, profile_id, run_id, {})
                /\ UNCHANGED extraction
           ELSE /\ extraction' = [ pc |-> "gathering", profile_id |-> profile_id,
                                   run |-> run, prompt |-> CHOOSE i \in active : TRUE,
                                   task |-> [ id \in ids |-> "created" ],
                                   reply |-> [ id \in ids |-> NoReply ],
                                   value |-> semaphore_limit, waiters |-> << >>,
                                   succeeded |-> 0, failed |-> 0 ]
                /\ UNCHANGED <<runs, ret>>
        /\ UNCHANGED <<dedupVars, scoreVars, prompts, mergeTx, request, wire, orch>>

\* _extract_one reaches `async with semaphore`: Semaphore.acquire takes a
\* permit when one is free and nobody waits, else the task joins the waiters.
\* The event loop starts the tasks in the order gather created them (the
\* order of the selected rows, here that of their ids).
Acquire(id) ==
    /\ extraction.pc = "gathering"
    /\ id \in DOMAIN extraction.task
    /\ extraction.task[id] = "created"
    /\ \A j \in DOMAIN extraction.task : j < id => extraction.task[j] # "created"
    /\ extraction' =
          IF extraction.value > 0 /\ extraction.waiters = << >>
          THEN [ extraction EXCEPT !.value = @ - 1, !.task[id] = "in_flight" ]
          ELSE [ extraction EXCEPT !.waiters = Append(@, id), !.task[id] = "waiting" ]
    /\ UNCHANGED <<dedupVars, scoreVars, passVars, mergeTx, request, wire, orch, ret>>

\* a woken waiter resumes inside `async with semaphore` and issues its request
Resume(id) ==
    /\ extraction.pc = "gathering"
    /\ id \in DOMAIN extraction.task
    /\ extraction.task[id] = "woken"
    /\ extraction' = [ extraction EXCEPT !.task[id] = "in_flight" ]
    /\ UNCHANGED <<dedupVars, scoreVars, passVars, mergeTx, request, wire, orch, ret>>

\* Semaphore.release: the permit goes back, and to the first waiter if there is one
Released(ex) ==
    IF ex.waiters = << >>
    THEN [ ex EXCEPT !.value = @ + 1 ]
    ELSE [ ex EXCEPT !.waiters = Tail(@), !.task[Head(ex.waiters)] = "woken" ]

\* extract_vacancy_data answers (it returns a result or raises): the task
\* leaves `async with semaphore` and runs to its end, counting as it goes
Answer(id, reply) ==
    /\ extraction.pc = "gathering"
    /\ id \in DOMAIN extraction.task
    /\ extraction.task[id] = "in_flight"
    /\ LET counted ==
              IF reply.kind = "raise"
              THEN [ extraction EXCEPT !.failed = @ + 1 ]
              ELSE IF reply.success
              THEN [ extraction EXCEPT !.run.items_processed = @ + 1,
                                       !.succeeded = @ + 1,
                                       !.run.tokens_input = @ + reply.tokens_input,
                                       !.run.tokens_output = @ + reply.tokens_output ]
              ELSE [ extraction EXCEPT !.run.items_processed = @ + 1, !.failed = @ + 1 ]
       IN  extraction' = [ Released(counted) EXCEPT !.task[id] = "done",
                                                    !.reply[id] = reply ]
    /\ UNCHANGED <<dedupVars, scoreVars, passVars, mergeTx, request, wire, orch, ret>>

\* asyncio.gather has returned: the run is completed and the session committed
FinishExtraction ==
    /\ extraction.pc = "gathering"
    /\ GatherReturns(extraction.task)
    /\ LET ids == DOMAIN extraction.task
           selected == { v \in vacancies : v.id \in ids }
           run == extraction.run
       IN  /\ vacancies' = (vacancies \ selected) \cup
                  { _extract_one(v, extraction.reply[v.id], run.id,
                                 prompts[extraction.prompt]) : v \in selected }
           /\ runs' = Append(runs, [ run EXCEPT !.items_succeeded = extraction.succeeded,
                                                !.items_failed = extraction.failed,
                                                !.status = "completed",
                                                !.completed_at = clock ])
           /\ ret' = PassRet("run_llm_extraction", TRUE, extraction.profile_id, run.id, ids)
           /\ wire' = [ id \in ids |->
                          IF extraction.reply[id].kind = "raise" THEN "raise"
                          ELSE IF extraction.reply[id].success THEN "success"
                          ELSE "failure" ]
    /\ extraction' = IdleExtraction
    /\ UNCHANGED <<dedupVars, leads, nextLeadId, configs, clock, prompts, mergeTx, request,
                   orch>>

PendingIds == 1..MaxPending

TaskStarts == \E id \in PendingIds : Acquire(id)
TaskResumes == \E id \in PendingIds : Resume(id)
RequestAnswered == \E id \in PendingIds, reply \in LlmReplies : Answer(id, reply)
PassStarts == \E p \in Profiles : StartExtraction(p)

InitExtract ==
    /\ InitDedupIdle
    /\ InitJobsIdle
    /\ companies = << HarvestedCompany(1, Name_AcmeBV, NoInt) >>
    /\ nextCompanyId = 2
    /\ \E n \in 0..MaxPending :
          vacancies = { HarvestedVacancy(id, 1, 1, Text_Vacancy) : id \in 1..n }
    /\ leads = <<>>
    /\ nextLeadId = 1
    /\ configs = <<>>
    /\ clock = 100
    /\ runs = <<>>
    /\ prompts = << [ id |-> 1, profile_id |-> 1, version |-> 1, is_active |-> TRUE,
                      extraction_schema |-> ExtractionSchema ] >>
    /\ ret = PassRet("none", TRUE, 0, 0, {})

NextExtract ==
    PassStarts \/ TaskStarts \/ TaskResumes \/ RequestAnswered \/ FinishExtraction

SpecExtract == InitExtract /\ [][NextExtract]_vars

\* every started task takes its next step, every request is answered (the
\* client gives up after its timeout), and gather returns when it can
FairSpecExtract ==
    /\ SpecExtract
    /\ WF_vars(TaskStarts) /\ WF_vars(TaskResumes)
    /\ WF_vars(RequestAnswered) /\ WF_vars(FinishExtraction)

\* ---- claims on the tasks of the LLM pass ----

Selected(id) == extraction.pc = "gathering" /\ id \in DOMAIN extraction.task

Issued(id) == Selected(id) /\ extraction.task[id] \in { "in_flight", "done" }

\* C30: during run_llm_extraction at most 5 extraction requests are in
\* flight at any moment, the request of every selected vacancy is eventually
\* issued, and the pass finishes only after all of them have completed
C30_FiveInFlightAllIssued ==
    /\ [](Cardinality(InFlight) <= 5)
    /\ \A id \in PendingIds : Selected(id) ~> Issued(id)
    /\ [][ (extraction.pc = "gathering" /\ extraction'.pc = "idle") =>
              /\ \A id \in DOMAIN extraction.task : extraction.task[id] = "done"
              /\ ret'.attempted = DOMAIN extraction.task
         ]_vars

\* five requests are in flight while a sixth selected vacancy waits for the
\* semaphore
C30_FiveInFlightOneWaiting ==
    /\ extraction.pc = "gathering"
    /\ Cardinality(InFlight) = 5
    /\ \E id \in DOMAIN extraction.task : extraction.task[id] = "waiting"

====
